---- MODULE Spec2Model ----
(***************************************************************************)
(* State-machine model of the event -> trigger -> order -> alert pipeline  *)
(* of KDT Aso.                                                             *)
(*                                                                         *)
(* The alert lifecycle manager (src/core/alerts.js, class AlertSystem):    *)
(* the live alert map, the bounded history, the per-alert escalation       *)
(* timers and the operations create / acknowledge / resolve / escalate /   *)
(* addNote / assign, together with the queries getActive and getHistory.   *)
(*                                                                         *)
(* The standing order matcher (src/core/standing-orders.js, class          *)
(* StandingOrders): the configured orders, the activity log, the           *)
(* time-based monitors, checkTrigger, requiresEscalation and escalate.     *)
(*                                                                         *)
(* The sensor registry (src/core/sensors.js, class SensorSystem): the      *)
(* registered sensors, their buffers, and ingest with its per-type rules.  *)
(*                                                                         *)
(* The listeners of src/core/languages.js that wire the three together.    *)
(*                                                                         *)
(* JavaScript runs every handler to completion on one event loop, so each  *)
(* handler (and each timer callback) is one atomic action.                 *)
(***************************************************************************)
EXTENDS Integers, Sequences, FiniteSets, TLC

VARIABLES
  alerts,            \* this.alerts: the Map, as the sequence of its values in insertion order
  history,           \* this.history: array of resolved alerts, newest first
  escalationTimers,  \* this.escalationTimers: Map alert id -> timer handle
  timers,            \* the runtime's pending setTimeout timers: records [h, id, delay]
  uuidCount,         \* number of ids uuidv4() has handed out
  now,               \* the last value new Date() gave
  ghost,             \* per created id: the options create was called with; whether a client escalated it
  resolvedLog,       \* the alerts resolve() returned, in the order it resolved them
  last,              \* the last operation: its name, argument id, return value and emitted events
  configFile,        \* config/standing_orders.yaml as the constructor of StandingOrders finds it
  orders,            \* StandingOrders.orders: the entries of the object, in Object.entries order
  activeMonitors,    \* StandingOrders.activeMonitors: Map order id -> interval handle
  intervals,         \* the runtime's live setInterval timers: records [h, orderId, targetTime]
  logs,              \* StandingOrders.logs: the activity log, oldest first
  executions,        \* the 'trigger' listeners suspended at their await: records [order, context]
  sensors,           \* SensorSystem.sensors: the Map, as the sequence of its values in insertion order
  dataBuffer,        \* SensorSystem.dataBuffer: Map sensor id -> array of readings
  geofences,         \* SensorSystem.geofences: Map geofence id -> geofence
  faces              \* SensorSystem.watchlists.faces: the ids on the face watchlist

alertVars == <<alerts, history, escalationTimers, timers, uuidCount, now, ghost, resolvedLog>>

orderVars == <<configFile, orders, activeMonitors, intervals, logs, executions>>

sensorVars == <<sensors, dataBuffer, geofences, faces>>

\* the name of the last operation comes first: two states that differ in it are told apart
\* before the return values of different operations are compared
vars == <<last.op, alertVars, last, orderVars, sensorVars>>

(***************************************************************************)
(* Bounds of the model.                                                    *)
(***************************************************************************)
\* alerts created in the lifecycle specification
MaxAlerts == 2
\* alerts created in the timer specification
MaxFairAlerts == 1
\* alerts created in the history specification
MaxHistoryAlerts == 3
\* alerts created in the ordering specification
MaxActiveAlerts == 4
\* notes that acknowledge, resolve, addNote and assign may add to one alert
MaxNotes == 1
\* last clock value
MaxTime == 3
\* this.maxHistory (1000 in the source, alerts.js:16), scaled down so that eviction happens
maxHistory == 2
\* default limit of getHistory (100 in the source, alerts.js:318), scaled down below maxHistory
defaultLimit == 1
\* length the activity log is cut to (1000 in the source, standing-orders.js:123), scaled down
maxLogs == 2
\* calls of log in the standing-order specification
MaxLogged == 4
\* 'trigger' listeners suspended at one time
MaxExecutions == 2
\* alerts created from escalations in the standing-order specification
MaxOrderAlerts == 2
\* intervals live at one time
MaxIntervals == 2
\* calls of ingest in the sensor specification
MaxReadings == 2
\* this.bufferSize (100 in the source, sensors.js:14), scaled down
bufferSize == 2
\* calls of ingest in the specification of sensors without a usable geofence
MaxFenceReadings == 1
\* calls of ingest in any specification: one more than the buffers hold
MaxBuffered == 3

(***************************************************************************)
(* Constants of the program.                                               *)
(***************************************************************************)
Null == "null"

\* this.priorities (timeout: null is written 0: both are falsy in the tests the code makes)
priorities ==
  [ critical |-> [level |-> 5, timeout |-> 0],
    high     |-> [level |-> 4, timeout |-> 300000],
    medium   |-> [level |-> 3, timeout |-> 900000],
    low      |-> [level |-> 2, timeout |-> 3600000],
    info     |-> [level |-> 1, timeout |-> 0] ]

KnownPriorities == DOMAIN priorities

\* a priority string that is no key of this.priorities (create does not validate it)
UnknownPriority == "urgent"

\* the local array `priorities` of escalate
escalationOrder == <<"info", "low", "medium", "high", "critical">>

DefaultReason == "Auto-escalation due to timeout"
ManualReason == "Manual escalation"

\* this.priorities[p]?.level || 3
LevelOf(p) == IF p \in KnownPriorities THEN priorities[p].level ELSE 3

\* this.priorities[p]?.timeout (0 when null or undefined)
TimeoutOf(p) == IF p \in KnownPriorities THEN priorities[p].timeout ELSE 0

(***************************************************************************)
(* Helpers for arrays and Maps.                                            *)
(***************************************************************************)
Min(a, b) == IF a < b THEN a ELSE b

Range(s) == {s[i] : i \in DOMAIN s}

\* Array.prototype.indexOf: 0-based index of x in s, -1 when absent
IndexOf(s, x) ==
  IF \E i \in DOMAIN s : s[i] = x
  THEN (CHOOSE i \in DOMAIN s : s[i] = x /\ \A j \in 1..(i - 1) : s[j] # x) - 1
  ELSE -1

\* position of the entry with key id in the Map (0 when there is none)
Pos(m, id) ==
  IF \E i \in DOMAIN m : m[i].id = id
  THEN CHOOSE i \in DOMAIN m : m[i].id = id
  ELSE 0

\* a delete that removes nothing
MapDelete_keeps(m, id) == m

\* Map.prototype.delete
MapDelete(m, id) == SelectSeq(m, LAMBDA a : a.id # id)

\* Array.prototype.slice(0, n) for n >= 0
Slice(s, n) == SubSeq(s, 1, Min(n, Len(s)))

Ids(s) == {s[i].id : i \in DOMAIN s}

(***************************************************************************)
(* Escalation timers.  T is the pair [pending, map]: the runtime's pending *)
(* timers and this.escalationTimers.                                       *)
(***************************************************************************)
\* setTimeout returns a new Timeout object: a handle no live reference names
FreshHandle(T) ==
  LET used == {t.h : t \in T.pending} \cup {T.map[i] : i \in DOMAIN T.map}
  IN CHOOSE h \in 1..(Cardinality(used) + 1) : h \notin used

\* clearEscalation that forgets the timer without clearTimeout
clearEscalation_forgets(T, alertId) ==
  IF alertId \in DOMAIN T.map
  THEN [pending |-> T.pending,
        map     |-> [i \in DOMAIN T.map \ {alertId} |-> T.map[i]]]
  ELSE T

clearEscalation(T, alertId) ==
  IF alertId \in DOMAIN T.map
  THEN [pending |-> {t \in T.pending : t.h # T.map[alertId]},
        map     |-> [i \in DOMAIN T.map \ {alertId} |-> T.map[i]]]
  ELSE T

\* setupEscalation without the acknowledged test
setupEscalation_armsAcknowledged(T, alert) ==
  LET T1 == clearEscalation(T, alert.id)
      timeout == TimeoutOf(alert.priority)
  IN IF timeout # 0
     THEN LET h == FreshHandle(T1)
          IN [pending |-> T1.pending \cup {[h |-> h, id |-> alert.id, delay |-> timeout]},
              map     |-> (alert.id :> h) @@ T1.map]
     ELSE T1

\* setupEscalation without the clearEscalation call
setupEscalation_noClear(T, alert) ==
  LET timeout == TimeoutOf(alert.priority)
  IN IF timeout # 0 /\ ~alert.acknowledged
     THEN LET h == FreshHandle(T)
          IN [pending |-> T.pending \cup {[h |-> h, id |-> alert.id, delay |-> timeout]},
              map     |-> (alert.id :> h) @@ T.map]
     ELSE T

setupEscalation(T, alert) ==
  LET T1 == clearEscalation(T, alert.id)
      timeout == TimeoutOf(alert.priority)
  IN IF timeout # 0 /\ ~alert.acknowledged
     THEN LET h == FreshHandle(T1)
          IN [pending |-> T1.pending \cup {[h |-> h, id |-> alert.id, delay |-> timeout]},
              map     |-> (alert.id :> h) @@ T1.map]
     ELSE T1

(***************************************************************************)
(* The operations of AlertSystem, as functions of the state they read.     *)
(* Each returns the state it leaves, its return value (<<>> for null,      *)
(* <<alert>> for an alert) and the events it emitted, in order.            *)
(***************************************************************************)
\* a note that does not keep its type
Note_untyped(type, user, text) == [type |-> "note", user |-> user, text |-> text]

Note(type, user, text) == [type |-> type, user |-> user, text |-> text]

Event(name, alert) == [name |-> name, alert |-> alert]

\* the alert object literal of create
NewAlert(id, o, clock) ==
  [ id              |-> id,
    priority        |-> o.priority,
    priorityLevel   |-> LevelOf(o.priority),
    category        |-> o.category,
    requiresAck     |-> o.requiresAck,
    acknowledged    |-> FALSE,
    acknowledgedBy  |-> Null,
    resolved        |-> FALSE,
    resolvedBy      |-> Null,
    assignedTo      |-> o.assignedTo,
    createdAt       |-> clock,
    escalationLevel |-> 0,
    notes           |-> <<>> ]

\* create that arms no timer
create_noTimer(A, T, id, o, clock) ==
  LET alert == NewAlert(id, o, clock)
  IN [alerts |-> Append(A, alert), T |-> T, ret |-> <<alert>>,
      emitted |-> <<Event("alert:created", alert), Event("alert", alert)>>]

create(A, T, id, o, clock) ==
  LET alert == NewAlert(id, o, clock)
      T2 == IF o.autoEscalate /\ TimeoutOf(o.priority) # 0
            THEN setupEscalation(T, alert)
            ELSE T
  IN [alerts |-> Append(A, alert), T |-> T2, ret |-> <<alert>>,
      emitted |-> <<Event("alert:created", alert), Event("alert", alert)>>]

\* acknowledge that toggles the flag
acknowledge_toggles(A, T, alertId, userId, note) ==
  LET i == Pos(A, alertId)
  IN IF i = 0
     THEN [alerts |-> A, T |-> T, ret |-> <<>>, emitted |-> <<>>]
     ELSE LET a1 == [A[i] EXCEPT !.acknowledged = ~@, !.acknowledgedBy = userId]
              a2 == IF note # Null
                    THEN [a1 EXCEPT !.notes = Append(@, Note("acknowledgment", userId, note))]
                    ELSE a1
          IN [alerts |-> [A EXCEPT ![i] = a2], T |-> clearEscalation(T, alertId),
              ret |-> <<a2>>, emitted |-> <<Event("alert:acknowledged", a2)>>]

acknowledge(A, T, alertId, userId, note) ==
  LET i == Pos(A, alertId)
  IN IF i = 0
     THEN [alerts |-> A, T |-> T, ret |-> <<>>, emitted |-> <<>>]
     ELSE LET a1 == [A[i] EXCEPT !.acknowledged = TRUE, !.acknowledgedBy = userId]
              a2 == IF note # Null
                    THEN [a1 EXCEPT !.notes = Append(@, Note("acknowledgment", userId, note))]
                    ELSE a1
          IN [alerts |-> [A EXCEPT ![i] = a2], T |-> clearEscalation(T, alertId),
              ret |-> <<a2>>, emitted |-> <<Event("alert:acknowledged", a2)>>]

\* addToHistory with push in place of unshift: the truncation drops the newest entry
addToHistory_push(H, alert) ==
  LET h1 == H \o <<alert>>
  IN IF Len(h1) > maxHistory THEN Slice(h1, maxHistory) ELSE h1

addToHistory(H, alert) ==
  LET h1 == <<alert>> \o H
  IN IF Len(h1) > maxHistory THEN Slice(h1, maxHistory) ELSE h1

\* resolve that moves the alert to the history without setting its resolved flag
resolve_noFlag(A, H, T, alertId, userId, resolution) ==
  LET i == Pos(A, alertId)
  IN IF i = 0
     THEN [alerts |-> A, history |-> H, T |-> T, ret |-> <<>>, emitted |-> <<>>]
     ELSE LET a1 == [A[i] EXCEPT !.resolvedBy = userId]
              a2 == IF resolution # Null
                    THEN [a1 EXCEPT !.notes = Append(@, Note("resolution", userId, resolution))]
                    ELSE a1
          IN [alerts |-> MapDelete(A, alertId), history |-> addToHistory(H, a2),
              T |-> clearEscalation(T, alertId),
              ret |-> <<a2>>, emitted |-> <<Event("alert:resolved", a2)>>]

resolve(A, H, T, alertId, userId, resolution) ==
  LET i == Pos(A, alertId)
  IN IF i = 0
     THEN [alerts |-> A, history |-> H, T |-> T, ret |-> <<>>, emitted |-> <<>>]
     ELSE LET a1 == [A[i] EXCEPT !.resolved = TRUE, !.resolvedBy = userId]
              a2 == IF resolution # Null
                    THEN [a1 EXCEPT !.notes = Append(@, Note("resolution", userId, resolution))]
                    ELSE a1
          IN [alerts |-> MapDelete(A, alertId), history |-> addToHistory(H, a2),
              T |-> clearEscalation(T, alertId),
              ret |-> <<a2>>, emitted |-> <<Event("alert:resolved", a2)>>]

\* escalate with the top of the order tested one step late: a critical alert is "escalated" too
escalate_offByOne(A, T, alertId, reason) ==
  LET i == Pos(A, alertId)
  IN IF i = 0
     THEN [alerts |-> A, T |-> T, ret |-> <<>>, emitted |-> <<>>]
     ELSE LET alert == A[i]
              currentIndex == IndexOf(escalationOrder, alert.priority)
          IN IF currentIndex < Len(escalationOrder)
             THEN LET newPriority == escalationOrder[Min(currentIndex + 2, Len(escalationOrder))]
                      a2 == [alert EXCEPT
                               !.priority = newPriority,
                               !.priorityLevel = priorities[newPriority].level,
                               !.escalationLevel = @ + 1,
                               !.notes = Append(@, Note("escalation", "system", reason))]
                      T2 == IF TimeoutOf(newPriority) # 0 THEN setupEscalation(T, a2) ELSE T
                  IN [alerts |-> [A EXCEPT ![i] = a2], T |-> T2, ret |-> <<a2>>,
                      emitted |-> <<Event("alert:escalated", a2), Event("alert", a2)>>]
             ELSE [alerts |-> A, T |-> T, ret |-> <<alert>>, emitted |-> <<>>]

escalate(A, T, alertId, reason) ==
  LET i == Pos(A, alertId)
  IN IF i = 0
     THEN [alerts |-> A, T |-> T, ret |-> <<>>, emitted |-> <<>>]
     ELSE LET alert == A[i]
              currentIndex == IndexOf(escalationOrder, alert.priority)
          IN IF currentIndex < Len(escalationOrder) - 1
             THEN LET newPriority == escalationOrder[currentIndex + 2]
                      a2 == [alert EXCEPT
                               !.priority = newPriority,
                               !.priorityLevel = priorities[newPriority].level,
                               !.escalationLevel = @ + 1,
                               !.notes = Append(@, Note("escalation", "system", reason))]
                      T2 == IF TimeoutOf(newPriority) # 0 THEN setupEscalation(T, a2) ELSE T
                  IN [alerts |-> [A EXCEPT ![i] = a2], T |-> T2, ret |-> <<a2>>,
                      emitted |-> <<Event("alert:escalated", a2), Event("alert", a2)>>]
             ELSE [alerts |-> A, T |-> T, ret |-> <<alert>>, emitted |-> <<>>]

\* addNote that falls back to the newest alert when the id is unknown
addNote_newestAlert(A, alertId, userId, text) ==
  LET i == IF Pos(A, alertId) = 0 THEN Len(A) ELSE Pos(A, alertId)
  IN IF i = 0
     THEN [alerts |-> A, ret |-> <<>>, emitted |-> <<>>]
     ELSE LET a2 == [A[i] EXCEPT !.notes = Append(@, Note("note", userId, text))]
          IN [alerts |-> [A EXCEPT ![i] = a2], ret |-> <<a2>>,
              emitted |-> <<Event("alert:updated", a2)>>]

addNote(A, alertId, userId, text) ==
  LET i == Pos(A, alertId)
  IN IF i = 0
     THEN [alerts |-> A, ret |-> <<>>, emitted |-> <<>>]
     ELSE LET a2 == [A[i] EXCEPT !.notes = Append(@, Note("note", userId, text))]
          IN [alerts |-> [A EXCEPT ![i] = a2], ret |-> <<a2>>,
              emitted |-> <<Event("alert:updated", a2)>>]

\* assign that emits before it changes the alert: the event carries the alert as it was
assign_emitsStale(A, alertId, assignee) ==
  LET i == Pos(A, alertId)
  IN IF i = 0
     THEN [alerts |-> A, ret |-> <<>>, emitted |-> <<>>]
     ELSE LET a2 == [A[i] EXCEPT
                       !.assignedTo = assignee,
                       !.notes = Append(@, Note("assignment", "system", assignee))]
          IN [alerts |-> [A EXCEPT ![i] = a2], ret |-> <<a2>>,
              emitted |-> <<Event("alert:assigned", A[i])>>]

assign(A, alertId, assignee) ==
  LET i == Pos(A, alertId)
  IN IF i = 0
     THEN [alerts |-> A, ret |-> <<>>, emitted |-> <<>>]
     ELSE LET a2 == [A[i] EXCEPT
                       !.assignedTo = assignee,
                       !.notes = Append(@, Note("assignment", "system", assignee))]
          IN [alerts |-> [A EXCEPT ![i] = a2], ret |-> <<a2>>,
              emitted |-> <<Event("alert:assigned", a2)>>]

(***************************************************************************)
(* Queries.  A filter field that is absent is the empty string / FALSE.    *)
(***************************************************************************)
NoFilter == ""

\* the comparator with the dates the other way round: oldest first within a rank
compareActive_oldestFirst(a, b) ==
  IF b.priorityLevel # a.priorityLevel
  THEN b.priorityLevel - a.priorityLevel
  ELSE a.createdAt - b.createdAt

\* the comparator of getActive: negative when a sorts before b
compareActive(a, b) ==
  IF b.priorityLevel # a.priorityLevel
  THEN b.priorityLevel - a.priorityLevel
  ELSE b.createdAt - a.createdAt

\* Array.prototype.sort is stable: x goes after every element that does not sort after it
RECURSIVE InsertSorted(_, _)
InsertSorted(s, x) ==
  IF s = <<>> THEN <<x>>
  ELSE IF compareActive(Head(s), x) > 0
       THEN <<x>> \o s
       ELSE <<Head(s)>> \o InsertSorted(Tail(s), x)

RECURSIVE SortActive(_)
SortActive(s) ==
  IF s = <<>> THEN <<>>
  ELSE InsertSorted(SortActive(SubSeq(s, 1, Len(s) - 1)), s[Len(s)])

getActive(A, filters) ==
  LET unresolved == SelectSeq(A, LAMBDA a : ~a.resolved)
      byPriority == IF filters.priority # NoFilter
                    THEN SelectSeq(unresolved, LAMBDA a : a.priority = filters.priority)
                    ELSE unresolved
      byCategory == IF filters.category # NoFilter
                    THEN SelectSeq(byPriority, LAMBDA a : a.category = filters.category)
                    ELSE byPriority
      unacked    == IF filters.unacknowledged
                    THEN SelectSeq(byCategory, LAMBDA a : ~a.acknowledged)
                    ELSE byCategory
  IN SortActive(unacked)

\* getCounts of the alert system: the object literal it returns
AlertSystem_getCounts(A) ==
  LET active == getActive(A, [priority |-> NoFilter, category |-> NoFilter,
                              unacknowledged |-> FALSE])
      Count(p) == Len(SelectSeq(active, LAMBDA a : a.priority = p))
  IN [total          |-> Len(active),
      critical       |-> Count("critical"),
      high           |-> Count("high"),
      medium         |-> Count("medium"),
      low            |-> Count("low"),
      info           |-> Count("info"),
      unacknowledged |-> Len(SelectSeq(active, LAMBDA a : ~a.acknowledged))]

\* getHistory(limit, filters) for limit >= 0, with the priority and category filters
getHistory(H, limit, filters) ==
  LET byPriority == IF filters.priority # NoFilter
                    THEN SelectSeq(H, LAMBDA a : a.priority = filters.priority)
                    ELSE H
      byCategory == IF filters.category # NoFilter
                    THEN SelectSeq(byPriority, LAMBDA a : a.category = filters.category)
                    ELSE byPriority
  IN Slice(byCategory, limit)

(***************************************************************************)
(* Strings.  A string whose characters the program inspects (a threshold   *)
(* expression, a response text) is the sequence of its characters.         *)
(***************************************************************************)
Max(a, b) == IF a > b THEN a ELSE b

\* Array.prototype.slice(start) and String.prototype.slice(start): a negative start counts
\* from the end, and -0 is 0
slice(s, start) ==
  LET from == IF start < 0 THEN Max(Len(s) + start, 0) ELSE Min(start, Len(s))
  IN SubSeq(s, from + 1, Len(s))

toLowerCaseChar(c) ==
  CASE c = "A" -> "a" [] c = "B" -> "b" [] c = "O" -> "o" [] c = "R" -> "r" [] OTHER -> c

toLowerCase(s) == [i \in DOMAIN s |-> toLowerCaseChar(s[i])]

\* String.prototype.indexOf: 0-based index of the first occurrence of t in s, -1 when absent
indexOfString(s, t) ==
  LET at == {i \in 0..(Len(s) - Len(t)) : SubSeq(s, i + 1, i + Len(t)) = t}
  IN IF at = {} THEN -1 ELSE CHOOSE i \in at : \A j \in at : i <= j

includes(s, t) == indexOfString(s, t) # -1

\* String.prototype.split with a non-empty separator
RECURSIVE split(_, _)
split(s, sep) ==
  LET i == indexOfString(s, sep)
  IN IF i = -1 THEN <<s>>
     ELSE <<SubSeq(s, 1, i)>> \o split(slice(s, i + Len(sep)), sep)

RECURSIVE trim(_)
trim(s) ==
  IF s = <<>> THEN s
  ELSE IF Head(s) = " " THEN trim(Tail(s))
  ELSE IF s[Len(s)] = " " THEN trim(SubSeq(s, 1, Len(s) - 1))
  ELSE s

\* Array.prototype.join
RECURSIVE join(_, _)
join(list, sep) ==
  IF list = <<>> THEN <<>>
  ELSE IF Len(list) = 1 THEN list[1]
  ELSE list[1] \o sep \o join(Tail(list), sep)

(***************************************************************************)
(* The standing order matcher.  An order is the record                     *)
(*   [id, trigger, authority_level, escalation]                            *)
(* where authority_level is 0 when the definition has none and escalation  *)
(* is <<>> when the definition has no policy and <<policy>> otherwise,     *)
(*   policy = [always_notify, threshold, priority]                         *)
(* with threshold <<>> and priority Null when not set.                     *)
(***************************************************************************)
\* the file does not exist
NoFile == [kind |-> "missing", standing_orders |-> <<>>]

\* loadOrders: fs.existsSync, yaml.parse and `config.standing_orders || {}`.  yaml.parse
\* throws on a document it cannot parse and gives null for an empty document, and reading
\* a property of null throws.
loadOrders(file) ==
  CASE file.kind = "missing"    -> [threw |-> FALSE, orders |-> <<>>]
    [] file.kind = "unparsable" -> [threw |-> TRUE,  orders |-> <<>>]
    [] file.kind = "empty"      -> [threw |-> TRUE,  orders |-> <<>>]
    [] file.kind = "noKey"      -> [threw |-> FALSE, orders |-> <<>>]
    [] OTHER                    -> [threw |-> FALSE, orders |-> file.standing_orders]

getActiveCount(O) == Len(O)

\* log: seq stands for the entry's timestamp (the number of the call of log that wrote it)
log(L, orderId, action, details) ==
  LET l1 == Append(L, [orderId |-> orderId, action |-> action, details |-> details,
                       seq |-> IF L = <<>> THEN 1 ELSE L[Len(L)].seq + 1])
  IN IF Len(l1) > maxLogs THEN slice(l1, -maxLogs) ELSE l1

getLogs(L, limit) == slice(L, -limit)

\* the first argument of the 'trigger' event: { id: orderId, name: orderId, ...order }
FiredOrder(order) ==
  [id |-> order.id, name |-> order.id, trigger |-> order.trigger,
   authority_level |-> order.authority_level, escalation |-> order.escalation]

TriggerEvent(order, context) == [name |-> "trigger", order |-> order, context |-> context]

\* checkTrigger that fires every matching order
checkTrigger_all(O, L, triggerName, context) ==
  LET matching == SelectSeq(O, LAMBDA o : o.trigger = triggerName)
      Logged[k \in 0..Len(matching)] ==
        IF k = 0 THEN L ELSE log(Logged[k - 1], matching[k].id, "triggered", context)
  IN [logs |-> Logged[Len(matching)], ret |-> matching # <<>>,
      emitted |-> [k \in DOMAIN matching |-> TriggerEvent(FiredOrder(matching[k]), context)]]

checkTrigger(O, L, triggerName, context) ==
  LET matching == {i \in DOMAIN O : O[i].trigger = triggerName}
  IN IF matching = {}
     THEN [logs |-> L, ret |-> FALSE, emitted |-> <<>>]
     ELSE LET i == CHOOSE i \in matching : \A j \in matching : i <= j
          IN [logs |-> log(L, O[i].id, "triggered", context), ret |-> TRUE,
              emitted |-> <<TriggerEvent(FiredOrder(O[i]), context)>>]

ThresholdSeparator == <<" ", "O", "R", " ">>

requiresEscalation(order, responses) ==
  IF order.escalation = <<>> THEN FALSE
  ELSE IF order.escalation[1].always_notify THEN TRUE
  ELSE IF order.escalation[1].threshold # <<>>
       THEN LET responseText ==
                  toLowerCase(join([i \in DOMAIN responses |-> responses[i].response], <<" ">>))
                thresholdTerms ==
                  split(toLowerCase(order.escalation[1].threshold), ThresholdSeparator)
            IN \E k \in DOMAIN thresholdTerms : includes(responseText, trim(thresholdTerms[k]))
       ELSE FALSE

DefaultEscalationReason == <<"Standing order escalation">>

\* the escalation record with acknowledgment required only above authority level 4
NewEscalation_above4(order, responses) ==
  [orderId   |-> order.id,
   orderName |-> order.name,
   priority  |-> IF order.escalation # <<>> /\ order.escalation[1].priority # Null
                 THEN order.escalation[1].priority ELSE "high",
   reason    |-> IF order.escalation # <<>> /\ order.escalation[1].threshold # <<>>
                 THEN order.escalation[1].threshold ELSE DefaultEscalationReason,
   responses |-> responses,
   requiresAcknowledgment |-> order.authority_level > 4]

\* the escalation record of escalate
NewEscalation(order, responses) ==
  [orderId   |-> order.id,
   orderName |-> order.name,
   priority  |-> IF order.escalation # <<>> /\ order.escalation[1].priority # Null
                 THEN order.escalation[1].priority ELSE "high",
   reason    |-> IF order.escalation # <<>> /\ order.escalation[1].threshold # <<>>
                 THEN order.escalation[1].threshold ELSE DefaultEscalationReason,
   responses |-> responses,
   requiresAcknowledgment |-> order.authority_level >= 4]

EscalationEvent(escalation) == [name |-> "escalation", escalation |-> escalation]

\* StandingOrders.escalate
escalateOrder(L, order, responses) ==
  LET escalation == NewEscalation(order, responses)
  IN [logs |-> log(L, order.id, "escalated", escalation), ret |-> escalation,
      emitted |-> <<EscalationEvent(escalation)>>]

(***************************************************************************)
(* Time-based monitors.  M is the pair [live, map]: the runtime's live     *)
(* intervals and this.activeMonitors.                                      *)
(***************************************************************************)
\* order.trigger.match(/time\s*==\s*(\d{4})/): <<HHMM>> on a match, <<>> otherwise
TimeMatch(trigger) ==
  CASE trigger = "time == 0600" -> <<"0600">>
    [] trigger = "time==0600"   -> <<"0600">>
    [] trigger = "time == 0700" -> <<"0700">>
    [] OTHER                    -> <<>>

\* order.trigger.includes('time ==')
IncludesTimeEq(trigger) == trigger \in {"time == 0600", "time == 0700", "time == 600"}

\* setInterval returns a new Timeout object
FreshInterval(M) ==
  LET used == {t.h : t \in M.live} \cup {M.map[i] : i \in DOMAIN M.map}
  IN CHOOSE h \in 1..(Cardinality(used) + 1) : h \notin used

\* this.orders[orderId]: the position of the entry (0 when there is none)
OrderPos(O, orderId) ==
  IF \E i \in DOMAIN O : O[i].id = orderId
  THEN CHOOSE i \in DOMAIN O : O[i].id = orderId
  ELSE 0

startTimeBasedMonitor(O, M, orderId) ==
  LET i == OrderPos(O, orderId)
  IN IF i = 0 THEN M
     ELSE LET timeMatch == TimeMatch(O[i].trigger)
          IN IF timeMatch # <<>>
             THEN LET h == FreshInterval(M)
                  IN [live |-> M.live \cup {[h |-> h, orderId |-> orderId,
                                             trigger |-> O[i].trigger,
                                             targetTime |-> timeMatch[1]]},
                      map  |-> (orderId :> h) @@ M.map]
             ELSE M

stopMonitor(M, orderId) ==
  IF orderId \in DOMAIN M.map
  THEN [live |-> {t \in M.live : t.h # M.map[orderId]},
        map  |-> [i \in DOMAIN M.map \ {orderId} |-> M.map[i]]]
  ELSE M

initializeMonitors(O, M) ==
  LET Started[k \in 0..Len(O)] ==
        IF k = 0 THEN M
        ELSE IF IncludesTimeEq(O[k].trigger)
             THEN startTimeBasedMonitor(O, Started[k - 1], O[k].id)
             ELSE Started[k - 1]
  IN Started[Len(O)]

(***************************************************************************)
(* The sensor registry.  A value that may be missing (a config entry, a    *)
(* field of a reading) is <<>> when missing and <<v>> otherwise.  A        *)
(* position is [lat, lng] in thousandths of a degree, on the grid          *)
(* -1..4 x -1..4.                                                          *)
(***************************************************************************)
\* this.sensorTypes: the declared triggers of each type
sensorTypes ==
  [ camera         |-> {"motion_detected", "person_detected", "vehicle_detected", "face_match"},
    drone          |-> {"low_battery", "geofence_breach", "signal_lost", "target_acquired"},
    gps_tracker    |-> {"geofence_breach", "speed_alert", "sos_activated", "battery_low",
                        "offline"},
    motion_sensor  |-> {"motion_detected", "zone_breach", "tamper_alert"},
    environmental  |-> {"temperature_alert", "smoke_detected", "gas_leak", "noise_alert"},
    access_control |-> {"access_denied", "forced_entry", "door_held_open", "tailgating"},
    radio          |-> {"transmission_detected", "jamming_detected", "unknown_frequency"},
    generic        |-> {"alert", "warning", "info"} ]

\* v || d for a number that may be missing: a missing value and 0 are both falsy
OrDefault(v, d) == IF v = <<>> \/ v[1] = 0 THEN d ELSE v[1]

\* x > n and x < n for a number x that may be missing: a comparison with undefined is false
Greater(x, n) == x # <<>> /\ x[1] > n

Less(x, n) == x # <<>> /\ x[1] < n

\* haversineDistance in metres, rounded up, by the differences of latitude and longitude in
\* thousandths of a degree: for a whole number r, distance > r iff the rounded distance > r
HaversineCeil ==
  << <<0,   112, 223, 334, 445, 556>>,
     <<112, 158, 249, 352, 459, 567>>,
     <<223, 249, 315, 401, 498, 599>>,
     <<334, 352, 401, 472, 556, 649>>,
     <<445, 459, 498, 556, 630, 712>>,
     <<556, 567, 599, 649, 712, 787>> >>

Abs(n) == IF n < 0 THEN -n ELSE n

haversineDistance(p, q) == HaversineCeil[Abs(p.lat - q.lat) + 1][Abs(p.lng - q.lng) + 1]

\* one test of the ray-casting loop: the edge from polygon[i] to polygon[j] is crossed.
\* point.lat < (xj - xi) * (point.lng - yi) / (yj - yi) + xi, multiplied out by yj - yi,
\* which is not 0 when the first conjunct holds
Crosses(point, pi, pj) ==
  /\ (pi.lng > point.lng) # (pj.lng > point.lng)
  /\ IF pj.lng - pi.lng > 0
     THEN (point.lat - pi.lat) * (pj.lng - pi.lng) < (pj.lat - pi.lat) * (point.lng - pi.lng)
     ELSE (point.lat - pi.lat) * (pj.lng - pi.lng) > (pj.lat - pi.lat) * (point.lng - pi.lng)

\* pointInPolygon without the edge that closes the polygon, from the last vertex to the first
pointInPolygon_openPath(point, polygon) ==
  LET n == Len(polygon)
      Inside[i \in 0..n] ==
        IF i = 0 THEN FALSE
        ELSE IF i = 1 THEN Inside[i - 1]
        ELSE IF Crosses(point, polygon[i], polygon[i - 1]) THEN ~Inside[i - 1]
             ELSE Inside[i - 1]
  IN Inside[n]

pointInPolygon(point, polygon) ==
  LET n == Len(polygon)
      Inside[i \in 0..n] ==
        IF i = 0 THEN FALSE
        ELSE LET j == IF i = 1 THEN n ELSE i - 1
             IN IF Crosses(point, polygon[i], polygon[j]) THEN ~Inside[i - 1] ELSE Inside[i - 1]
  IN Inside[n]

\* a Map, as the sequence of its entries: the position of key id (0 when there is none)
MapPos(m, id) ==
  IF \E i \in DOMAIN m : m[i].id = id
  THEN CHOOSE i \in DOMAIN m : m[i].id = id
  ELSE 0

\* Map.prototype.set: a new key goes last, an old key keeps its place
MapSet(m, entry) ==
  IF MapPos(m, entry.id) = 0 THEN Append(m, entry) ELSE [m EXCEPT ![MapPos(m, entry.id)] = entry]

\* checkGeofenceBreach that reports a breach when it finds no geofence
checkGeofenceBreach_failsClosed(G, position, geofenceId) ==
  IF geofenceId = <<>> THEN FALSE
  ELSE LET i == MapPos(G, geofenceId[1])
       IN IF i = 0 THEN TRUE
          ELSE IF G[i].type = "circle"
               THEN haversineDistance(position, G[i].center) > G[i].radius
               ELSE IF G[i].type = "polygon"
                    THEN ~pointInPolygon(position, G[i].points)
                    ELSE FALSE

\* geofenceId is <<>> when the sensor has none configured
checkGeofenceBreach(G, position, geofenceId) ==
  IF geofenceId = <<>> THEN FALSE
  ELSE LET i == MapPos(G, geofenceId[1])
       IN IF i = 0 THEN FALSE
          ELSE IF G[i].type = "circle"
               THEN haversineDistance(position, G[i].center) > G[i].radius
               ELSE IF G[i].type = "polygon"
                    THEN ~pointInPolygon(position, G[i].points)
                    ELSE FALSE

\* sensor.config with nothing configured
NoConfig ==
  [smokeThreshold |-> <<>>, gasThreshold |-> <<>>, tempMin |-> <<>>, tempMax |-> <<>>,
   speedLimit |-> <<>>, geofence |-> <<>>]

\* a reading with no field set
NoData ==
  [timestamp |-> <<>>, motion |-> FALSE, persons |-> 0, vehicles |-> 0, faceIds |-> {},
   battery |-> <<>>, position |-> <<>>, speed |-> <<>>, sos |-> FALSE,
   triggered |-> FALSE, tamper |-> FALSE,
   smoke |-> <<>>, gas |-> <<>>, temperature |-> <<>>,
   granted |-> FALSE, event_type |-> "", unknown_source |-> FALSE, jamming |-> FALSE]

\* the sensor object literal of register
NewSensor(id, type, zone, config, clock) ==
  [id |-> id, type |-> type, zone |-> zone, config |-> config,
   status |-> "online", lastSeen |-> clock, lastData |-> <<>>, registeredAt |-> clock,
   stats |-> [dataCount |-> 0, triggerCount |-> 0, errorCount |-> 0]]

\* the dataPoint object literal of ingest
DataPoint(sensor, data, clock) ==
  [reading    |-> data,
   timestamp  |-> IF data.timestamp # <<>> THEN data.timestamp[1] ELSE clock,
   sensorId   |-> sensor.id,
   sensorType |-> sensor.type,
   zone       |-> sensor.zone]

\* a rule that reports under the name "alert" instead of its own
Rule_unnamed(cond, name, data) == IF cond THEN <<[trigger |-> "alert", data |-> data]>> ELSE <<>>

\* one element of the local array `triggers`, or none
Rule(cond, name, data) == IF cond THEN <<[trigger |-> name, data |-> data]>> ELSE <<>>

\* the local array `triggers` of processTriggers, in the order of the pushes
Triggers(sensor, data, G, F) ==
  LET d == data.reading
      c == sensor.config
      breach == d.position # <<>> /\ checkGeofenceBreach(G, d.position[1], c.geofence)
  IN CASE sensor.type = "camera" ->
            Rule(d.motion, "motion_detected", data)
            \o Rule(d.persons > 0, "person_detected", data)
            \o Rule(d.vehicles > 0, "vehicle_detected", data)
            \o Rule(d.faceIds \cap F # {}, "face_match", data)
       [] sensor.type = "drone" ->
            Rule(Less(d.battery, 20), "low_battery", data)
            \o Rule(breach, "geofence_breach", data)
       [] sensor.type = "gps_tracker" ->
            Rule(Less(d.battery, 15), "battery_low", data)
            \o Rule(Greater(d.speed, OrDefault(c.speedLimit, 150)), "speed_alert", data)
            \o Rule(d.sos, "sos_activated", data)
            \o Rule(breach, "geofence_breach", data)
       [] sensor.type = "motion_sensor" ->
            Rule(d.triggered, "motion_detected", data)
            \o Rule(d.tamper, "tamper_alert", data)
       [] sensor.type = "environmental" ->
            Rule(Greater(d.smoke, OrDefault(c.smokeThreshold, 50)), "smoke_detected", data)
            \o Rule(Greater(d.gas, OrDefault(c.gasThreshold, 100)), "gas_leak", data)
            \o Rule(Greater(d.temperature, OrDefault(c.tempMax, 50))
                      \/ Less(d.temperature, OrDefault(c.tempMin, 0)),
                    "temperature_alert", data)
       [] sensor.type = "access_control" ->
            Rule(~d.granted, "access_denied", data)
            \o Rule(d.event_type = "forced", "forced_entry", data)
       [] sensor.type = "radio" ->
            Rule(d.unknown_source, "unknown_frequency", data)
            \o Rule(d.jamming, "jamming_detected", data)
       [] OTHER -> <<>>

\* the 'sensor:trigger' event emitted for one element of `triggers`
SensorTriggerEvent(sensor, trigger, data) ==
  [name |-> "sensor:trigger", trigger |-> trigger.trigger, data |-> trigger.data,
   sensorId |-> sensor.id, sensorType |-> sensor.type, zone |-> sensor.zone,
   timestamp |-> data.timestamp]

\* processTriggers that stops at the first satisfied rule
processTriggers_firstOnly(sensor, data, G, F) ==
  LET triggers == Slice(Triggers(sensor, data, G, F), 1)
  IN [sensor  |-> [sensor EXCEPT !.stats.triggerCount = @ + Len(triggers)],
      ret     |-> triggers,
      emitted |-> [k \in DOMAIN triggers |-> SensorTriggerEvent(sensor, triggers[k], data)]]

processTriggers(sensor, data, G, F) ==
  LET triggers == Triggers(sensor, data, G, F)
  IN [sensor  |-> [sensor EXCEPT !.stats.triggerCount = @ + Len(triggers)],
      ret     |-> triggers,
      emitted |-> [k \in DOMAIN triggers |-> SensorTriggerEvent(sensor, triggers[k], data)]]

\* the functions every object literal inherits from Object.prototype: truthy values
ObjectPrototype ==
  {"constructor", "toString", "toLocaleString", "valueOf", "hasOwnProperty",
   "isPrototypeOf", "propertyIsEnumerable"}

\* whether this.sensorTypes[type] is truthy
HasSensorType(type) == type \in DOMAIN sensorTypes \cup ObjectPrototype

\* register that keeps the buffer of an id it already knows
register_keepsBuffer(S, B, options, clock) ==
  IF ~HasSensorType(options.type)
  THEN [sensors |-> S, dataBuffer |-> B, ret |-> <<>>, threw |-> TRUE, emitted |-> <<>>]
  ELSE LET sensor == NewSensor(options.id, options.type, options.zone, options.config, clock)
       IN [sensors |-> MapSet(S, sensor),
           dataBuffer |-> IF options.id \in DOMAIN B THEN B ELSE (options.id :> <<>>) @@ B,
           ret |-> <<sensor>>, threw |-> FALSE,
           emitted |-> <<[name |-> "sensor:registered", sensor |-> sensor]>>]

\* register: options carry the id (the caller's, or the one uuidv4() gave)
register(S, B, options, clock) ==
  IF ~HasSensorType(options.type)
  THEN [sensors |-> S, dataBuffer |-> B, ret |-> <<>>, threw |-> TRUE, emitted |-> <<>>]
  ELSE LET sensor == NewSensor(options.id, options.type, options.zone, options.config, clock)
       IN [sensors |-> MapSet(S, sensor),
           dataBuffer |-> (options.id :> <<>>) @@ B,
           ret |-> <<sensor>>, threw |-> FALSE,
           emitted |-> <<[name |-> "sensor:registered", sensor |-> sensor]>>]

\* Map.prototype.delete on the buffers
BufferDelete(B, id) ==
  IF DOMAIN B \ {id} = {} THEN <<>> ELSE [k \in DOMAIN B \ {id} |-> B[k]]

\* unregister that leaves the buffer of the sensor behind
unregister_keepsBuffer(S, B, sensorId) ==
  LET i == MapPos(S, sensorId)
  IN IF i = 0
     THEN [sensors |-> S, dataBuffer |-> B, ret |-> <<FALSE>>, emitted |-> <<>>]
     ELSE [sensors |-> MapDelete(S, sensorId), dataBuffer |-> B,
           ret |-> <<TRUE>>,
           emitted |-> <<[name |-> "sensor:unregistered", sensor |-> S[i]]>>]

unregister(S, B, sensorId) ==
  LET i == MapPos(S, sensorId)
  IN IF i = 0
     THEN [sensors |-> S, dataBuffer |-> B, ret |-> <<FALSE>>, emitted |-> <<>>]
     ELSE [sensors |-> MapDelete(S, sensorId), dataBuffer |-> BufferDelete(B, sensorId),
           ret |-> <<TRUE>>,
           emitted |-> <<[name |-> "sensor:unregistered", sensor |-> S[i]]>>]

\* markOffline that also forgets the last reading
markOffline_clearsData(S, sensorId) ==
  LET i == MapPos(S, sensorId)
  IN IF i = 0
     THEN [sensors |-> S, ret |-> <<>>, emitted |-> <<>>]
     ELSE LET sensor == [S[i] EXCEPT !.status = "offline", !.lastData = <<>>]
          IN [sensors |-> [S EXCEPT ![i] = sensor], ret |-> <<>>,
              emitted |-> <<[name |-> "sensor:offline", sensor |-> sensor]>>]

markOffline(S, sensorId) ==
  LET i == MapPos(S, sensorId)
  IN IF i = 0
     THEN [sensors |-> S, ret |-> <<>>, emitted |-> <<>>]
     ELSE LET sensor == [S[i] EXCEPT !.status = "offline"]
          IN [sensors |-> [S EXCEPT ![i] = sensor], ret |-> <<>>,
              emitted |-> <<[name |-> "sensor:offline", sensor |-> sensor]>>]

\* a value of byType: the number n, or (isNumber FALSE) the string made of the source text
\* of an inherited function followed by n characters "1"
Number(n) == [isNumber |-> TRUE, n |-> n]

FunctionSourceAnd(n) == [isNumber |-> FALSE, n |-> n]

\* (byType[type] || 0) + 1, byType being an object literal
Increment(byType, type) ==
  IF type \in DOMAIN byType
  THEN IF byType[type].isNumber
       THEN Number(byType[type].n + 1)
       ELSE FunctionSourceAnd(byType[type].n + 1)
  ELSE IF type \in ObjectPrototype THEN FunctionSourceAnd(1) ELSE Number(1)

\* getCounts of the sensor system
SensorSystem_getCounts(S) ==
  LET Counted[k \in 0..Len(S)] ==
        IF k = 0
        THEN [byType |-> <<>>, byStatus |-> [online |-> 0, offline |-> 0, error |-> 0]]
        ELSE LET c == Counted[k - 1]
                 sensor == S[k]
             IN [byType   |-> (sensor.type :> Increment(c.byType, sensor.type)) @@ c.byType,
                 byStatus |-> [c.byStatus EXCEPT ![sensor.status] = @ + 1]]
  IN [total |-> Len(S), byType |-> Counted[Len(S)].byType,
      byStatus |-> Counted[Len(S)].byStatus]

DataEvent(name, dataPoint) == [name |-> name, data |-> dataPoint]

\* the data events with the type-scoped one left out
DataEvents_genericOnly(sensor, dataPoint) == <<DataEvent("sensor:data", dataPoint)>>

\* the two emits of ingest that precede processTriggers
DataEvents(sensor, dataPoint) ==
  <<DataEvent("sensor:data", dataPoint), DataEvent("sensor:data:" \o sensor.type, dataPoint)>>

\* ingest that evicts the newest reading of a full buffer
ingest_evictsNewest(S, B, G, F, sensorId, data, clock) ==
  LET i == MapPos(S, sensorId)
  IN IF i = 0
     THEN [sensors |-> S, dataBuffer |-> B, ret |-> <<>>, threw |-> TRUE, emitted |-> <<>>,
           atEmit |-> <<>>]
     ELSE LET dataPoint == DataPoint(S[i], data, clock)
              s1 == [S[i] EXCEPT !.lastSeen = dataPoint.timestamp,
                                 !.lastData = <<dataPoint>>,
                                 !.status = "online",
                                 !.stats.dataCount = @ + 1]
              b1 == Append(B[sensorId], dataPoint)
              b2 == IF Len(b1) > bufferSize THEN SubSeq(b1, 1, bufferSize) ELSE b1
              p  == processTriggers(s1, dataPoint, G, F)
          IN [sensors |-> [S EXCEPT ![i] = p.sensor],
              dataBuffer |-> [B EXCEPT ![sensorId] = b2],
              ret |-> <<dataPoint>>, threw |-> FALSE,
              emitted |-> DataEvents(S[i], dataPoint) \o p.emitted,
              atEmit |-> <<[sensor |-> s1, buffer |-> b2]>>]

\* ingest; atEmit is the sensor and its buffer as the listeners of the data events find
\* them: the state before processTriggers runs
ingest(S, B, G, F, sensorId, data, clock) ==
  LET i == MapPos(S, sensorId)
  IN IF i = 0
     THEN [sensors |-> S, dataBuffer |-> B, ret |-> <<>>, threw |-> TRUE, emitted |-> <<>>,
           atEmit |-> <<>>]
     ELSE LET dataPoint == DataPoint(S[i], data, clock)
              s1 == [S[i] EXCEPT !.lastSeen = dataPoint.timestamp,
                                 !.lastData = <<dataPoint>>,
                                 !.status = "online",
                                 !.stats.dataCount = @ + 1]
              b1 == Append(B[sensorId], dataPoint)
              b2 == IF Len(b1) > bufferSize THEN Tail(b1) ELSE b1
              p  == processTriggers(s1, dataPoint, G, F)
          IN [sensors |-> [S EXCEPT ![i] = p.sensor],
              dataBuffer |-> [B EXCEPT ![sensorId] = b2],
              ret |-> <<dataPoint>>, threw |-> FALSE,
              emitted |-> DataEvents(S[i], dataPoint) \o p.emitted,
              atEmit |-> <<[sensor |-> s1, buffer |-> b2]>>]

\* getBuffer that answers with the oldest buffer when the id has none
getBuffer_anyBuffer(B, sensorId, limit) ==
  IF sensorId \notin DOMAIN B
  THEN IF DOMAIN B = {} THEN <<>> ELSE B[CHOOSE id \in DOMAIN B : TRUE]
  ELSE slice(B[sensorId], -limit)

getBuffer(B, sensorId, limit) ==
  IF sensorId \notin DOMAIN B THEN <<>> ELSE slice(B[sensorId], -limit)

(***************************************************************************)
(* The listeners of src/core/languages.js.  W is the state a listener      *)
(* reads and writes: [alerts, T, count, ghost, logs, executions, emitted]. *)
(***************************************************************************)
\* the options fromStandingOrder passes to create
fromStandingOrder(escalation) ==
  [priority     |-> IF escalation.priority = "" THEN "high" ELSE escalation.priority,
   category     |-> "operational",
   requiresAck  |-> escalation.requiresAcknowledgment,
   autoEscalate |-> TRUE,
   assignedTo   |-> Null]

\* the options security passes to create
security(priority) ==
  [priority     |-> priority,
   category     |-> "security",
   requiresAck  |-> priority = "critical" \/ priority = "high",
   autoEscalate |-> TRUE,
   assignedTo   |-> Null]

\* a call of create by a listener
createIn(W, o, clock) ==
  LET id == W.count + 1
      r  == create(W.alerts, W.T, id, o, clock)
  IN [W EXCEPT !.alerts = r.alerts, !.T = r.T, !.count = id,
               !.ghost = Append(@, [autoEscalate |-> o.autoEscalate, created |-> o.priority,
                                    manual |-> FALSE]),
               !.emitted = @ \o r.emitted]

\* standingOrders.on('trigger', async ...): the listener runs up to its first await and is
\* suspended there with the order and the context
onTrigger(event) == [order |-> event.order, context |-> event.context]

\* a call of checkTrigger by a listener
checkTriggerIn(W, O, triggerName, context) ==
  LET r == checkTrigger(O, W.logs, triggerName, context)
  IN [W EXCEPT !.logs = r.logs,
               !.executions = @ \o [k \in DOMAIN r.emitted |-> onTrigger(r.emitted[k])],
               !.emitted = @ \o r.emitted]

\* const triggerMapping: <<name>> of the standing-order trigger, <<>> when there is none
triggerMapping(trigger) ==
  CASE trigger \in {"motion_detected", "person_detected", "forced_entry"} ->
         <<"movement_detected_perimeter">>
    [] trigger = "geofence_breach" -> <<"tracked_asset_leaves_geofence">>
    [] trigger = "face_match" -> <<"watchlist_entity_detected">>
    [] trigger \in {"sos_activated", "smoke_detected", "gas_leak"} -> <<"emergency_declared">>
    [] OTHER -> <<>>

criticalTriggers == {"forced_entry", "sos_activated", "smoke_detected", "gas_leak", "face_match"}

highTriggers == {"geofence_breach", "tamper_alert", "jamming_detected"}

\* the listener with an alert for every trigger: high for those in neither list
onSensorTrigger_alwaysAlerts(W, O, trigger, clock) ==
  LET W0 == [W EXCEPT !.emitted = Append(@, trigger)]
      standingOrderTrigger == triggerMapping(trigger.trigger)
      W1 == IF standingOrderTrigger # <<>>
            THEN checkTriggerIn(W0, O, standingOrderTrigger[1],
                                [sensor |-> trigger.sensorId, originalTrigger |-> trigger.trigger])
            ELSE W0
  IN IF trigger.trigger \in criticalTriggers THEN createIn(W1, security("critical"), clock)
     ELSE createIn(W1, security("high"), clock)

\* sensorSystem.on('sensor:trigger', ...)
onSensorTrigger(W, O, trigger, clock) ==
  LET W0 == [W EXCEPT !.emitted = Append(@, trigger)]
      standingOrderTrigger == triggerMapping(trigger.trigger)
      W1 == IF standingOrderTrigger # <<>>
            THEN checkTriggerIn(W0, O, standingOrderTrigger[1],
                                [sensor |-> trigger.sensorId, originalTrigger |-> trigger.trigger])
            ELSE W0
  IN IF trigger.trigger \in criticalTriggers THEN createIn(W1, security("critical"), clock)
     ELSE IF trigger.trigger \in highTriggers THEN createIn(W1, security("high"), clock)
     ELSE W1

\* the listeners run inside emit, one event after the other
onSensorEvents(W, O, events, clock) ==
  LET Done[k \in 0..Len(events)] ==
        IF k = 0 THEN W
        ELSE IF events[k].name = "sensor:trigger"
             THEN onSensorTrigger(Done[k - 1], O, events[k], clock)
             ELSE [Done[k - 1] EXCEPT !.emitted = Append(@, events[k])]
  IN Done[Len(events)]

\* sensorSystem.on('sensor:offline', ...)
onSensorOffline(W, O, event) ==
  checkTriggerIn([W EXCEPT !.emitted = Append(@, event)], O, "tracked_asset_no_signal",
                 [sensor |-> event.sensor.id, sensorType |-> event.sensor.type,
                  zone |-> event.sensor.zone, lastSeen |-> event.sensor.lastSeen])

\* standingOrders.on('escalation', ...)
onEscalation(W, event, clock) ==
  createIn([W EXCEPT !.emitted = Append(@, event)], fromStandingOrder(event.escalation), clock)

\* the 'trigger' listener from its await on, when executeStandingOrder gave responses
afterExecution(W, order, responses, clock) ==
  IF requiresEscalation(order, responses)
  THEN LET r == escalateOrder(W.logs, order, responses)
       IN onEscalation([W EXCEPT !.logs = r.logs], r.emitted[1], clock)
  ELSE W

(***************************************************************************)
(* Actions: one per handler, and one for a timer callback.                 *)
(***************************************************************************)
TimerState == [pending |-> timers, map |-> escalationTimers]

Last(op, id, r) == [op |-> op, id |-> id, ret |-> r.ret, emitted |-> r.emitted]

\* notes of an alert other than escalation notes
UserNotes(a) == Len(SelectSeq(a.notes, LAMBDA n : n.type # "escalation"))

\* the note bound: the alert addressed can take one more note
CanNote(id) ==
  IF Pos(alerts, id) = 0 THEN TRUE ELSE UserNotes(alerts[Pos(alerts, id)]) < MaxNotes

\* uuidv4() gives an id never handed out before (ids are only compared for equality);
\* clock is what new Date() reads: time never runs backwards
Create(cap, o, clock) ==
  /\ uuidCount < cap
  /\ clock >= now
  /\ clock <= MaxTime
  /\ LET id == uuidCount + 1
         r == create(alerts, TimerState, id, o, clock)
     IN /\ alerts' = r.alerts
        /\ timers' = r.T.pending
        /\ escalationTimers' = r.T.map
        /\ uuidCount' = id
        /\ now' = clock
        /\ ghost' = Append(ghost, [autoEscalate |-> o.autoEscalate, created |-> o.priority,
                                   manual |-> FALSE])
        /\ last' = Last("create", id, r)
  /\ UNCHANGED <<history, resolvedLog>>
  /\ UNCHANGED <<orderVars, sensorVars>>

Acknowledge(id, userId, note) ==
  /\ IF note # Null THEN CanNote(id) ELSE TRUE
  /\ LET r == acknowledge(alerts, TimerState, id, userId, note)
     IN /\ alerts' = r.alerts
        /\ timers' = r.T.pending
        /\ escalationTimers' = r.T.map
        /\ last' = Last("acknowledge", id, r)
  /\ UNCHANGED <<history, uuidCount, now, ghost, resolvedLog>>
  /\ UNCHANGED <<orderVars, sensorVars>>

Resolve(id, userId, resolution) ==
  /\ IF resolution # Null THEN CanNote(id) ELSE TRUE
  /\ LET r == resolve(alerts, history, TimerState, id, userId, resolution)
     IN /\ alerts' = r.alerts
        /\ history' = r.history
        /\ timers' = r.T.pending
        /\ escalationTimers' = r.T.map
        /\ resolvedLog' = IF r.ret # <<>> THEN Append(resolvedLog, r.ret[1]) ELSE resolvedLog
        /\ last' = [op |-> "resolve", id |-> id, ret |-> r.ret, emitted |-> r.emitted,
                    userId |-> userId, resolution |-> resolution]
  /\ UNCHANGED <<uuidCount, now, ghost>>
  /\ UNCHANGED <<orderVars, sensorVars>>

\* escalate called by a client (the HTTP route passes a reason)
Escalate(id, reason) ==
  /\ LET r == escalate(alerts, TimerState, id, reason)
     IN /\ alerts' = r.alerts
        /\ timers' = r.T.pending
        /\ escalationTimers' = r.T.map
        /\ ghost' = IF r.emitted # <<>> THEN [ghost EXCEPT ![id].manual = TRUE] ELSE ghost
        /\ last' = Last("escalate", id, r)
  /\ UNCHANGED <<history, uuidCount, now, resolvedLog>>
  /\ UNCHANGED <<orderVars, sensorVars>>

\* the callback of setupEscalation: the runtime drops the fired timer, then escalate(alert.id)
TimerFire(t) ==
  /\ t \in timers
  /\ LET r == escalate(alerts, [pending |-> timers \ {t}, map |-> escalationTimers],
                       t.id, DefaultReason)
     IN /\ alerts' = r.alerts
        /\ timers' = r.T.pending
        /\ escalationTimers' = r.T.map
        /\ last' = Last("timer", t.id, r)
  /\ UNCHANGED <<history, uuidCount, now, ghost, resolvedLog>>
  /\ UNCHANGED <<orderVars, sensorVars>>

AddNote(id, userId, text) ==
  /\ CanNote(id)
  /\ LET r == addNote(alerts, id, userId, text)
     IN /\ alerts' = r.alerts
        /\ last' = Last("addNote", id, r)
  /\ UNCHANGED <<history, escalationTimers, timers, uuidCount, now, ghost, resolvedLog>>
  /\ UNCHANGED <<orderVars, sensorVars>>

Assign(id, assignee) ==
  /\ CanNote(id)
  /\ LET r == assign(alerts, id, assignee)
     IN /\ alerts' = r.alerts
        /\ last' = Last("assign", id, r)
  /\ UNCHANGED <<history, escalationTimers, timers, uuidCount, now, ghost, resolvedLog>>
  /\ UNCHANGED <<orderVars, sensorVars>>

(***************************************************************************)
(* Actions of the standing order matcher and of the sensor registry, each  *)
(* with the listeners that run inside it.                                  *)
(***************************************************************************)
\* new StandingOrders() returned
Constructed == ~loadOrders(configFile).threw

World ==
  [alerts |-> alerts, T |-> TimerState, count |-> uuidCount, ghost |-> ghost,
   logs |-> logs, executions |-> executions, emitted |-> <<>>]

SetWorld(W) ==
  /\ alerts' = W.alerts
  /\ timers' = W.T.pending
  /\ escalationTimers' = W.T.map
  /\ uuidCount' = W.count
  /\ ghost' = W.ghost
  /\ logs' = W.logs
  /\ executions' = W.executions

MonitorState == [live |-> intervals, map |-> activeMonitors]

\* the number of calls of log so far
Logged == IF logs = <<>> THEN 0 ELSE logs[Len(logs)].seq

\* checkTrigger called by a client (POST /api/standing-orders/trigger)
CheckTrigger(triggerName, context) ==
  /\ Constructed
  /\ Logged < MaxLogged
  /\ Len(executions) < MaxExecutions
  /\ LET r == checkTrigger(orders, logs, triggerName, context)
         W == checkTriggerIn(World, orders, triggerName, context)
     IN /\ SetWorld(W)
        /\ last' = [op |-> "checkTrigger", id |-> 0, arg |-> triggerName,
                    ret |-> <<r.ret>>, emitted |-> W.emitted]
  /\ UNCHANGED <<history, now, resolvedLog, configFile, orders, activeMonitors, intervals>>
  /\ UNCHANGED sensorVars

\* executeStandingOrder resolves with responses and the suspended listener k goes on
ExecutionDone(k, responses) ==
  /\ k \in DOMAIN executions
  /\ Logged < MaxLogged
  /\ uuidCount < MaxOrderAlerts
  /\ LET e  == executions[k]
         W0 == [World EXCEPT !.executions = SubSeq(@, 1, k - 1) \o SubSeq(@, k + 1, Len(@))]
         W  == afterExecution(W0, e.order, responses, now)
     IN /\ SetWorld(W)
        /\ last' = [op |-> "execution", id |-> 0, arg |-> e.order, responses |-> responses,
                    ret |-> <<requiresEscalation(e.order, responses)>>,
                    emitted |-> W.emitted]
  /\ UNCHANGED <<history, now, resolvedLog, configFile, orders, activeMonitors, intervals>>
  /\ UNCHANGED sensorVars

\* executeStandingOrder rejects: the listener's catch reports the error
ExecutionFails(k) ==
  /\ k \in DOMAIN executions
  /\ executions' = SubSeq(executions, 1, k - 1) \o SubSeq(executions, k + 1, Len(executions))
  /\ last' = [op |-> "executionError", id |-> 0, arg |-> executions[k].order,
              ret |-> <<>>, emitted |-> <<>>]
  /\ UNCHANGED <<alertVars, configFile, orders, activeMonitors, intervals, logs>>
  /\ UNCHANGED sensorVars

GetLogs(limit) ==
  /\ Constructed
  /\ last' = [op |-> "getLogs", id |-> 0, arg |-> limit, ret |-> getLogs(logs, limit),
              emitted |-> <<>>]
  /\ UNCHANGED <<alertVars, orderVars, sensorVars>>

StartTimeBasedMonitor(orderId) ==
  /\ Constructed
  /\ Cardinality(intervals) < MaxIntervals
  /\ LET M == startTimeBasedMonitor(orders, MonitorState, orderId)
     IN /\ intervals' = M.live
        /\ activeMonitors' = M.map
  /\ last' = [op |-> "startTimeBasedMonitor", id |-> 0, arg |-> orderId,
              ret |-> <<>>, emitted |-> <<>>]
  /\ UNCHANGED <<alertVars, configFile, orders, logs, executions, sensorVars>>

StopMonitor(orderId) ==
  /\ Constructed
  /\ LET M == stopMonitor(MonitorState, orderId)
     IN /\ intervals' = M.live
        /\ activeMonitors' = M.map
  /\ last' = [op |-> "stopMonitor", id |-> 0, arg |-> orderId, ret |-> <<>>, emitted |-> <<>>]
  /\ UNCHANGED <<alertVars, configFile, orders, logs, executions, sensorVars>>

InitializeMonitors ==
  /\ Constructed
  /\ LET M == initializeMonitors(orders, MonitorState)
     IN /\ Cardinality(M.live) <= MaxIntervals
        /\ intervals' = M.live
        /\ activeMonitors' = M.map
  /\ last' = [op |-> "initializeMonitors", id |-> 0, arg |-> "", ret |-> <<>>,
              emitted |-> <<>>]
  /\ UNCHANGED <<alertVars, configFile, orders, logs, executions, sensorVars>>

\* the callback of setInterval: currentTime is HHMM of new Date()
MonitorPoll(t, currentTime) ==
  /\ t \in intervals
  /\ Logged < MaxLogged
  /\ Len(executions) < MaxExecutions
  /\ LET W == IF currentTime = t.targetTime
              THEN checkTriggerIn(World, orders, t.trigger, [scheduledTime |-> t.targetTime])
              ELSE World
     IN /\ SetWorld(W)
        /\ last' = [op |-> "poll", id |-> 0, arg |-> t, time |-> currentTime, ret |-> <<>>,
                    emitted |-> W.emitted]
  /\ UNCHANGED <<history, now, resolvedLog, configFile, orders, activeMonitors, intervals>>
  /\ UNCHANGED sensorVars

\* requiresEscalation called on its own
RequiresEscalation(order, responses) ==
  /\ last' = [op |-> "requiresEscalation", id |-> 0, arg |-> order, responses |-> responses,
              ret |-> <<requiresEscalation(order, responses)>>, emitted |-> <<>>]
  /\ UNCHANGED <<alertVars, orderVars, sensorVars>>

Register(options) ==
  /\ LET r == register(sensors, dataBuffer, options, now)
     IN /\ sensors' = r.sensors
        /\ dataBuffer' = r.dataBuffer
        /\ last' = [op |-> "register", id |-> 0, arg |-> options, ret |-> r.ret,
                    threw |-> r.threw, emitted |-> r.emitted]
  /\ UNCHANGED <<alertVars, orderVars, geofences, faces>>

AddGeofence(id, geofence) ==
  /\ geofences' = MapSet(geofences, [geofence EXCEPT !.id = id])
  /\ last' = [op |-> "addGeofence", id |-> 0, arg |-> id, ret |-> <<geofence>>,
              emitted |-> <<>>]
  /\ UNCHANGED <<alertVars, orderVars, sensors, dataBuffer, faces>>

\* addToWatchlist('faces', id, data)
AddToWatchlist(id) ==
  /\ faces' = faces \cup {id}
  /\ last' = [op |-> "addToWatchlist", id |-> 0, arg |-> id, ret |-> <<>>, emitted |-> <<>>]
  /\ UNCHANGED <<alertVars, orderVars, sensors, dataBuffer, geofences>>

\* ingest called by a client (POST /api/sensors/:id/data), with the listeners of
\* 'sensor:data' and 'sensor:trigger'; clock is what new Date() reads
Ingest(sensorId, data, clock) ==
  /\ clock >= now
  /\ clock <= MaxBuffered
  /\ LET r == ingest(sensors, dataBuffer, geofences, faces, sensorId, data, clock)
         W == onSensorEvents(World, orders, r.emitted, clock)
     IN /\ sensors' = r.sensors
        /\ dataBuffer' = r.dataBuffer
        /\ SetWorld(W)
        /\ last' = [op |-> "ingest", id |-> 0, arg |-> sensorId, data |-> data,
                    ret |-> r.ret, threw |-> r.threw, emitted |-> W.emitted,
                    atEmit |-> r.atEmit]
  /\ now' = clock
  /\ UNCHANGED <<history, resolvedLog, configFile, orders, activeMonitors, intervals>>
  /\ UNCHANGED <<geofences, faces>>

\* DELETE /api/sensors/:id
Unregister(sensorId) ==
  /\ LET r == unregister(sensors, dataBuffer, sensorId)
     IN /\ sensors' = r.sensors
        /\ dataBuffer' = r.dataBuffer
        /\ last' = [op |-> "unregister", id |-> 0, arg |-> sensorId, ret |-> r.ret,
                    threw |-> FALSE, emitted |-> r.emitted]
  /\ UNCHANGED <<alertVars, orderVars, geofences, faces>>

\* markOffline, with the listener of 'sensor:offline'
MarkOffline(sensorId) ==
  /\ LET r == markOffline(sensors, sensorId)
         W == IF r.emitted = <<>> THEN World
              ELSE onSensorOffline(World, orders, r.emitted[1])
     IN /\ sensors' = r.sensors
        /\ SetWorld(W)
        /\ last' = [op |-> "markOffline", id |-> 0, arg |-> sensorId, ret |-> r.ret,
                    threw |-> FALSE, emitted |-> W.emitted]
  /\ UNCHANGED <<history, now, resolvedLog, configFile, orders, activeMonitors, intervals>>
  /\ UNCHANGED <<dataBuffer, geofences, faces>>

\* checkGeofenceBreach called on its own
CheckGeofenceBreach(position, geofenceId) ==
  /\ last' = [op |-> "checkGeofenceBreach", id |-> 0, arg |-> position, fence |-> geofenceId,
              ret |-> <<checkGeofenceBreach(geofences, position, geofenceId)>>,
              threw |-> FALSE, emitted |-> <<>>]
  /\ UNCHANGED <<alertVars, orderVars, sensorVars>>

\* GET /api/sensors/:id/data
GetBuffer(sensorId, limit) ==
  /\ last' = [op |-> "getBuffer", id |-> 0, arg |-> sensorId, limit |-> limit,
              ret |-> getBuffer(dataBuffer, sensorId, limit), threw |-> FALSE, emitted |-> <<>>]
  /\ UNCHANGED <<alertVars, orderVars, sensorVars>>

\* GET /api/sensors/counts
SensorCounts ==
  /\ last' = [op |-> "sensorCounts", id |-> 0, arg |-> "", ret |-> <<SensorSystem_getCounts(sensors)>>,
              threw |-> FALSE, emitted |-> <<>>]
  /\ UNCHANGED <<alertVars, orderVars, sensorVars>>

AlertSystem_constructor ==
  /\ alerts = <<>>
  /\ history = <<>>
  /\ escalationTimers = <<>>
  /\ timers = {}
  /\ uuidCount = 0
  /\ now = 0
  /\ ghost = <<>>
  /\ resolvedLog = <<>>

StandingOrders_constructor(file) ==
  /\ configFile = file
  /\ orders = loadOrders(file).orders
  /\ activeMonitors = <<>>
  /\ intervals = {}
  /\ logs = <<>>
  /\ executions = <<>>

SensorSystem_constructor ==
  /\ sensors = <<>>
  /\ dataBuffer = <<>>
  /\ geofences = <<>>
  /\ faces = {}

\* the state the three constructors leave when there is no configuration file
Init ==
  /\ AlertSystem_constructor
  /\ StandingOrders_constructor(NoFile)
  /\ SensorSystem_constructor
  /\ last = [op |-> "init", id |-> 0, ret |-> <<>>, emitted |-> <<>>]

(***************************************************************************)
(* Inputs.                                                                 *)
(***************************************************************************)
PriorityInputs == KnownPriorities \cup {UnknownPriority}

Options(ps, cs, rs, as) ==
  [priority : ps, category : cs, requiresAck : rs, autoEscalate : as, assignedTo : {Null}]

LifecycleOptions == Options(PriorityInputs, {"operational"}, {FALSE}, BOOLEAN)

User == "u1"

(***************************************************************************)
(* The lifecycle specification: create, acknowledge, resolve, escalate and *)
(* the timer callbacks on up to MaxAlerts alerts of every priority, with   *)
(* and without autoEscalate.                                               *)
(***************************************************************************)
Next ==
  \/ \E o \in LifecycleOptions : Create(MaxAlerts, o, now)
  \/ \E id \in 1..MaxAlerts : Acknowledge(id, User, Null)
  \/ \E id \in 1..MaxAlerts : Resolve(id, User, Null)
  \/ \E id \in 1..MaxAlerts : Escalate(id, DefaultReason)
  \/ \E t \in timers : TimerFire(t)

Spec == Init /\ [][Next]_vars

(***************************************************************************)
(* The timer specification: the lifecycle handlers on up to MaxFairAlerts  *)
(* alerts, with the fairness the runtime gives: a timer that stays pending *)
(* eventually fires.                                                       *)
(***************************************************************************)
NextFair ==
  \/ \E o \in LifecycleOptions : Create(MaxFairAlerts, o, now)
  \/ \E id \in 1..MaxFairAlerts : Acknowledge(id, User, Null)
  \/ \E id \in 1..MaxFairAlerts : Resolve(id, User, Null)
  \/ \E id \in 1..MaxFairAlerts : Escalate(id, ManualReason)
  \/ \E t \in timers : TimerFire(t)

TimerFires(id) == \E t \in timers : t.id = id /\ TimerFire(t)

SpecFair ==
  Init /\ [][NextFair]_vars /\ \A id \in 1..MaxFairAlerts : WF_vars(TimerFires(id))

(***************************************************************************)
(* The handlers specification: all seven handlers, with notes, on up to    *)
(* MaxAlerts alerts created high.                                          *)
(***************************************************************************)
HandlerOptions == Options({"high"}, {"operational"}, {FALSE}, {TRUE})

NextHandlers ==
  \/ \E o \in HandlerOptions : Create(MaxAlerts, o, now)
  \/ \E id \in 1..MaxAlerts, note \in {Null, "ack"} : Acknowledge(id, User, note)
  \/ \E id \in 1..MaxAlerts, res \in {Null, "fixed"} : Resolve(id, User, res)
  \/ \E id \in 1..MaxAlerts : Escalate(id, ManualReason)
  \/ \E t \in timers : TimerFire(t)
  \/ \E id \in 1..MaxAlerts : AddNote(id, User, "text")
  \/ \E id \in 1..MaxAlerts : Assign(id, "agent")

SpecHandlers == Init /\ [][NextHandlers]_vars

(***************************************************************************)
(* The history specification: up to MaxHistoryAlerts alerts created high   *)
(* or critical and resolved in any order, so that the history overflows.   *)
(***************************************************************************)
HistoryOptions == Options({"high", "critical"}, {"operational"}, {FALSE}, {TRUE})

NextHistory ==
  \/ \E o \in HistoryOptions : Create(MaxHistoryAlerts, o, now)
  \/ \E id \in 1..MaxHistoryAlerts : Acknowledge(id, User, Null)
  \/ \E id \in 1..MaxHistoryAlerts : Resolve(id, User, Null)
  \/ \E id \in 1..MaxHistoryAlerts : Escalate(id, ManualReason)
  \/ \E t \in timers : TimerFire(t)

SpecHistory == Init /\ [][NextHistory]_vars

(***************************************************************************)
(* The ordering specification, for the query getActive.  Its initial       *)
(* states are the states a sequence of calls leaves: up to MaxActiveAlerts *)
(* alerts, each created dt after the one before and then left alone,       *)
(* escalated once (those created low) or acknowledged (the others).  Its   *)
(* one action applies getActive.                                           *)
(***************************************************************************)
ActiveOptions ==
  { o \in Options({"low", "high", "critical"}, {"operational", "security"}, {FALSE}, {TRUE}) :
      o.category = "security" <=> o.priority = "high" }

ScriptStep ==
  { s \in [o : ActiveOptions, dt : {0, 1}, then : {"nothing", "acknowledge", "escalate"}] :
      /\ s.then = "escalate" => s.o.priority = "low"
      /\ s.then = "acknowledge" => s.o.priority # "low" }

RECURSIVE RunScript(_, _)
RunScript(script, S) ==
  IF script = <<>> THEN S
  ELSE LET step  == Head(script)
           id    == S.count + 1
           clock == S.now + step.dt
           r1 == create(S.alerts, S.T, id, step.o, clock)
           r2 == CASE step.then = "acknowledge" ->
                        acknowledge(r1.alerts, r1.T, id, User, Null)
                   [] step.then = "escalate" ->
                        escalate(r1.alerts, r1.T, id, ManualReason)
                   [] OTHER -> r1
       IN RunScript(Tail(script),
                    [alerts |-> r2.alerts, T |-> r2.T, now |-> clock, count |-> id,
                     ghost |-> Append(S.ghost,
                                      [autoEscalate |-> step.o.autoEscalate,
                                       created |-> step.o.priority,
                                       manual |-> step.then = "escalate"
                                                  /\ step.o.priority # "critical"])])

InitActive ==
  \E n \in 0..MaxActiveAlerts : \E script \in [1..n -> ScriptStep] :
    LET S == RunScript(script, [alerts |-> <<>>, T |-> [pending |-> {}, map |-> <<>>],
                                now |-> 0, count |-> 0, ghost |-> <<>>])
    IN /\ S.now <= MaxTime
       /\ alerts = S.alerts
       /\ timers = S.T.pending
       /\ escalationTimers = S.T.map
       /\ uuidCount = S.count
       /\ now = S.now
       /\ ghost = S.ghost
       /\ history = <<>>
       /\ resolvedLog = <<>>
       /\ StandingOrders_constructor(NoFile)
       /\ SensorSystem_constructor
       /\ last = [op |-> "init", id |-> 0, ret |-> <<>>, emitted |-> <<>>]

\* a client calls getActive(filters); ret is the array returned
GetActive(filters) ==
  /\ last' = [op |-> "getActive", id |-> 0, ret |-> getActive(alerts, filters),
              emitted |-> <<>>, filters |-> filters]
  /\ UNCHANGED <<alerts, history, escalationTimers, timers, uuidCount, now, ghost, resolvedLog>>
  /\ UNCHANGED <<orderVars, sensorVars>>

Filters(ps, cs, us) == [priority : ps, category : cs, unacknowledged : us]

\* GET /api/alerts/counts
AlertCounts ==
  /\ last' = [op |-> "alertCounts", id |-> 0, ret |-> <<AlertSystem_getCounts(alerts)>>,
              emitted |-> <<>>]
  /\ UNCHANGED <<alertVars, orderVars, sensorVars>>

NextActive ==
  \/ \E f \in Filters({NoFilter}, {NoFilter}, {FALSE})
              \cup Filters({"critical"}, {NoFilter}, {TRUE}) : GetActive(f)
  \/ AlertCounts

SpecActive == InitActive /\ [][NextActive]_vars

(***************************************************************************)
(* The escalation-test specification, for the function requiresEscalation. *)
(* Its initial states hold the arguments of one call: an order with no     *)
(* policy, with always_notify, or with a threshold expression, and up to   *)
(* two responses; its one action applies the function.                     *)
(***************************************************************************)
\* an entry of the configuration
Order(id, trigger, level, escalation) ==
  [id |-> id, trigger |-> trigger, authority_level |-> level, escalation |-> escalation]

Policy(notify, threshold, priority) ==
  <<[always_notify |-> notify, threshold |-> threshold, priority |-> priority]>>

ThresholdInputs ==
  { <<>>,
    <<"a">>,
    <<"A">>,
    <<"a", " ", "O", "R", " ", "b">>,
    <<"a", " ", "o", "r", " ", "b">>,
    <<"a", " ", " ", "O", "R", " ", "B">> }

PolicyInputs == {<<>>} \cup {Policy(n, t, Null) : n \in BOOLEAN, t \in ThresholdInputs}

ResponseTexts == {<<"a">>, <<"B">>, <<"o", "r">>, <<"c", "A", "c">>}

ResponseInputs ==
  UNION {[1..n -> [response : ResponseTexts]] : n \in 0..2}

InitEscalation ==
  /\ AlertSystem_constructor
  /\ StandingOrders_constructor(NoFile)
  /\ SensorSystem_constructor
  /\ \E p \in PolicyInputs, responses \in ResponseInputs :
       last = [op |-> "input", id |-> 0, arg |-> FiredOrder(Order("o1", "t1", 3, p)),
               responses |-> responses, ret |-> <<>>, emitted |-> <<>>]

NextEscalation ==
  /\ last.op = "input"
  /\ RequiresEscalation(last.arg, last.responses)

SpecEscalation == InitEscalation /\ [][NextEscalation]_vars

(***************************************************************************)
(* The standing-order specification: the matcher constructed on each of    *)
(* the configuration files below, with checkTrigger, the suspended         *)
(* 'trigger' listeners and their escalations, the monitors and getLogs.    *)
(***************************************************************************)
\* two orders for one trigger, and a time-based order with a threshold policy
ConfigA ==
  << Order("alpha", "emergency_declared", 4, Policy(TRUE, <<>>, "critical")),
     Order("bravo", "emergency_declared", 2, <<>>),
     Order("reveille", "time == 0600", 3, Policy(FALSE, <<"a">>, Null)) >>

\* two time-based orders for the same time, one without an authority level
ConfigB ==
  << Order("sweep", "time == 0600", 5, Policy(TRUE, <<>>, Null)),
     Order("muster", "time==0600", 0, Policy(TRUE, <<>>, UnknownPriority)) >>

ConfigFiles ==
  { NoFile,
    [kind |-> "unparsable", standing_orders |-> <<>>],
    [kind |-> "empty", standing_orders |-> <<>>],
    [kind |-> "noKey", standing_orders |-> <<>>],
    [kind |-> "orders", standing_orders |-> ConfigA],
    [kind |-> "orders", standing_orders |-> ConfigB] }

InitOrders ==
  /\ AlertSystem_constructor
  /\ \E file \in ConfigFiles : StandingOrders_constructor(file)
  /\ SensorSystem_constructor
  /\ last = [op |-> "init", id |-> 0, ret |-> <<>>, emitted |-> <<>>]

TriggerInputs == {"emergency_declared", "time == 0600", "no_such_trigger"}

OrderIdInputs == {"reveille", "sweep", "muster", "no_such_order"}

ManualContext == [source |-> "manual"]

NextOrders ==
  \/ \E name \in TriggerInputs : CheckTrigger(name, ManualContext)
  \/ \E k \in 1..MaxExecutions, responses \in {<<>>, <<[response |-> <<"c", "A", "c">>]>>} :
       ExecutionDone(k, responses)
  \/ \E k \in 1..MaxExecutions : ExecutionFails(k)
  \/ \E limit \in 0..(maxLogs + 1) : GetLogs(limit)
  \/ \E orderId \in OrderIdInputs : StartTimeBasedMonitor(orderId)
  \/ \E orderId \in OrderIdInputs : StopMonitor(orderId)
  \/ InitializeMonitors
  \/ \E t \in intervals, currentTime \in {"0600", "0601"} : MonitorPoll(t, currentTime)

SpecOrders == InitOrders /\ [][NextOrders]_vars

(***************************************************************************)
(* The sensor specification: one sensor id registered (and registered      *)
(* again) with every type and three configurations, a geofence and a       *)
(* watchlist entry added or not, and up to MaxReadings readings ingested,  *)
(* with the listeners that turn triggers into standing-order checks and    *)
(* alerts.                                                                 *)
(***************************************************************************)
Point(lat, lng) == [lat |-> lat, lng |-> lng]

ConfigInputs ==
  { NoConfig,
    [smokeThreshold |-> <<0>>, gasThreshold |-> <<0>>, tempMin |-> <<0>>, tempMax |-> <<0>>,
     speedLimit |-> <<0>>, geofence |-> <<"fence">>],
    [smokeThreshold |-> <<10>>, gasThreshold |-> <<150>>, tempMin |-> <<-10>>,
     tempMax |-> <<30>>, speedLimit |-> <<100>>, geofence |-> <<"fence">>] }

\* a type outside sensorTypes
UnknownType == "sonar"

\* the types whose rules read the configuration
ConfiguredTypes == {"drone", "gps_tracker", "environmental"}

RegisterInputs ==
  { o \in [id : {"s1"}, type : DOMAIN sensorTypes \cup {UnknownType}, zone : {"north"},
           config : ConfigInputs] :
      o.config # NoConfig => o.type \in ConfiguredTypes }

GeofenceInputs ==
  { [id |-> "fence", type |-> "circle", center |-> Point(0, 0), radius |-> 200, points |-> <<>>],
    [id |-> "fence", type |-> "polygon", center |-> Point(0, 0), radius |-> 0,
     points |-> <<Point(0, 0), Point(0, 2), Point(2, 2), Point(2, 0)>>] }

\* every rule of every type is satisfied under every configuration
ReadingAll ==
  [timestamp |-> <<7>>, motion |-> TRUE, persons |-> 2, vehicles |-> 1, faceIds |-> {"f1"},
   battery |-> <<10>>, position |-> <<Point(3, 3)>>, speed |-> <<200>>, sos |-> TRUE,
   triggered |-> TRUE, tamper |-> TRUE,
   smoke |-> <<160>>, gas |-> <<160>>, temperature |-> <<60>>,
   granted |-> FALSE, event_type |-> "forced", unknown_source |-> TRUE, jamming |-> TRUE]

\* values between the thresholds of the configurations, and one rule of two satisfied
ReadingSome ==
  [timestamp |-> <<>>, motion |-> FALSE, persons |-> 1, vehicles |-> 0, faceIds |-> {"f2"},
   battery |-> <<17>>, position |-> <<Point(1, 1)>>, speed |-> <<120>>, sos |-> FALSE,
   triggered |-> FALSE, tamper |-> TRUE,
   smoke |-> <<20>>, gas |-> <<120>>, temperature |-> <<40>>,
   granted |-> TRUE, event_type |-> "forced", unknown_source |-> FALSE, jamming |-> TRUE]

\* low values
ReadingLow ==
  [NoData EXCEPT !.smoke = <<0>>, !.gas = <<0>>, !.temperature = <<-5>>, !.speed = <<0>>,
                 !.battery = <<15>>, !.granted = TRUE]

DataInputs == {NoData, ReadingAll, ReadingSome, ReadingLow}

InitSensors ==
  /\ AlertSystem_constructor
  /\ StandingOrders_constructor([kind |-> "orders", standing_orders |-> ConfigA])
  /\ SensorSystem_constructor
  /\ last = [op |-> "init", id |-> 0, ret |-> <<>>, emitted |-> <<>>]

NextSensors ==
  \/ \E options \in RegisterInputs : Register(options)
  \/ \E g \in GeofenceInputs : AddGeofence(g.id, g)
  \/ AddToWatchlist("f1")
  \/ /\ now < MaxReadings
     /\ \E sensorId \in {"s1", "s9"}, data \in DataInputs : Ingest(sensorId, data, now + 1)

SpecSensors == InitSensors /\ [][NextSensors]_vars

(***************************************************************************)
(* The registry specification: two sensor ids registered, unregistered and *)
(* marked offline, with types inside and outside the type table, and up    *)
(* to MaxBuffered readings ingested, so that a buffer overflows.  No       *)
(* standing order is configured.                                           *)
(***************************************************************************)
\* a name every object inherits
InheritedType == "constructor"

\* the first id takes a type of the table, one outside it and an inherited name; the
\* second id the same type of the table or another
RegistryInputs ==
  [id : {"s1"}, type : {"camera", UnknownType, InheritedType}, zone : {"north"},
   config : {NoConfig}]
  \cup [id : {"s2"}, type : {"camera", "motion_sensor"}, zone : {"north"}, config : {NoConfig}]

RegistryData == {NoData, ReadingAll}

\* a sensor that is read, and an id that is never registered
SensorIdInputs == {"s1", "s9"}

InitRegistry ==
  /\ AlertSystem_constructor
  /\ StandingOrders_constructor(NoFile)
  /\ SensorSystem_constructor
  /\ last = [op |-> "init", id |-> 0, ret |-> <<>>, emitted |-> <<>>]

NextRegistry ==
  \/ \E options \in RegistryInputs : Register(options)
  \/ \E sensorId \in SensorIdInputs \cup {"s2"} : Unregister(sensorId)
  \/ \E sensorId \in SensorIdInputs : MarkOffline(sensorId)
  \/ \E sensorId \in SensorIdInputs, data \in RegistryData : Ingest(sensorId, data, now + 1)
  \/ SensorCounts
  \/ \E sensorId \in SensorIdInputs, limit \in {1, 50} : GetBuffer(sensorId, limit)

SpecRegistry == InitRegistry /\ [][NextRegistry]_vars

(***************************************************************************)
(* The geofence specification, for the function checkGeofenceBreach: four  *)
(* geofences added in any order (a circle, a square, a polygon that is not *)
(* convex and one of a type the code does not know), and the function      *)
(* applied to every position of the grid and every geofence id.            *)
(***************************************************************************)
Grid == {Point(lat, lng) : lat \in -1..4, lng \in -1..4}

CircleFence ==
  [id |-> "circle", type |-> "circle", center |-> Point(0, 0), radius |-> 250, points |-> <<>>]

SquareFence ==
  [id |-> "square", type |-> "polygon", center |-> Point(0, 0), radius |-> 0,
   points |-> <<Point(0, 0), Point(0, 3), Point(3, 3), Point(3, 0)>>]

\* an L: the square 0..4 x 0..4 without its corner 2..4 x 2..4
EllFence ==
  [id |-> "ell", type |-> "polygon", center |-> Point(0, 0), radius |-> 0,
   points |-> <<Point(0, 0), Point(4, 0), Point(4, 2), Point(2, 2), Point(2, 4), Point(0, 4)>>]

\* a geofence of a type that is neither circle nor polygon
OddFence ==
  [id |-> "odd", type |-> "rectangle", center |-> Point(0, 0), radius |-> 0,
   points |-> <<Point(0, 0), Point(0, 1), Point(1, 1), Point(1, 0)>>]

FenceInputs == {CircleFence, SquareFence, EllFence, OddFence}

\* the geofence ids a call may name: none, those of the four geofences, and one that is
\* never added
FenceIdInputs == {<<>>, <<"missing">>} \cup {<<g.id>> : g \in FenceInputs}

InitGeofence ==
  /\ AlertSystem_constructor
  /\ StandingOrders_constructor(NoFile)
  /\ SensorSystem_constructor
  /\ last = [op |-> "init", id |-> 0, ret |-> <<>>, emitted |-> <<>>]

NextGeofence ==
  \/ \E g \in FenceInputs : AddGeofence(g.id, g)
  \/ \E position \in Grid, geofenceId \in FenceIdInputs :
       CheckGeofenceBreach(position, geofenceId)

SpecGeofence == InitGeofence /\ [][NextGeofence]_vars

(***************************************************************************)
(* The specification of sensors without a usable geofence: a drone or a    *)
(* tracker registered with no geofence, with the id of one that is never   *)
(* added, of one of an unknown type, or of the L; the last two added or    *)
(* not; a reading with a position ingested; checkGeofenceBreach applied    *)
(* to positions inside and outside the L.                                  *)
(***************************************************************************)
OpenFenceInputs == {OddFence, EllFence}

OpenFenceIds == {<<>>, <<"missing">>, <<"odd">>, <<"ell">>}

OpenPositions == {Point(-1, -1), Point(1, 1), Point(3, 3), Point(4, 4)}

OpenSensorInputs ==
  { [id |-> "s1", type |-> type, zone |-> "north",
     config |-> [NoConfig EXCEPT !.geofence = g]] :
      type \in {"drone", "gps_tracker"}, g \in OpenFenceIds }

\* readings with a position inside the L and one outside
OpenData == { [NoData EXCEPT !.position = <<p>>] : p \in {Point(1, 1), Point(3, 3)} }

InitFailOpen ==
  /\ AlertSystem_constructor
  /\ StandingOrders_constructor(NoFile)
  /\ SensorSystem_constructor
  /\ last = [op |-> "init", id |-> 0, ret |-> <<>>, emitted |-> <<>>]

NextFailOpen ==
  \/ \E g \in OpenFenceInputs : AddGeofence(g.id, g)
  \/ \E position \in OpenPositions, geofenceId \in OpenFenceIds :
       CheckGeofenceBreach(position, geofenceId)
  \/ \E options \in OpenSensorInputs : Register(options)
  \/ /\ now < MaxFenceReadings
     /\ \E data \in OpenData : Ingest("s1", data, now + 1)

SpecFailOpen == InitFailOpen /\ [][NextFailOpen]_vars

(***************************************************************************)
(* Vocabulary of the properties.                                           *)
(***************************************************************************)
IsLive(id) == Pos(alerts, id) # 0

Live(id) == alerts[Pos(alerts, id)]

PendingFor(id) == {t \in timers : t.id = id}

\* the last step was a call of escalate (by a client or by a timer) on a live alert
EscalateCalled == last.op \in {"escalate", "timer"} /\ last.ret # <<>>

\* ... and it changed the alert's priority
Escalated == EscalateCalled /\ last.emitted # <<>>

(***************************************************************************)
(* C1.  Every call of escalate, manual or timer-driven, on a live alert    *)
(* leaves its priorityLevel at least what it was, whatever priority string *)
(* create accepted; escalationLevel never decreases and grows by exactly 1 *)
(* when the priority changes.                                              *)
(* Fails: a priority outside the five known ones gets rank 3, indexOf      *)
(* gives -1 and escalate moves the alert to "info", rank 1.                *)
(***************************************************************************)
C1_RankNeverDecreases ==
  [][\A id \in 1..uuidCount :
       (IsLive(id) /\ last'.op \in {"escalate", "timer"} /\ last'.id = id /\ last'.ret # <<>>)
       => LET old == Live(id)
              new == last'.ret[1]
          IN /\ new.priorityLevel >= old.priorityLevel
             /\ new.escalationLevel >= old.escalationLevel
             /\ (new.priority # old.priority
                 => new.escalationLevel = old.escalationLevel + 1)]_vars

(***************************************************************************)
(* C2.  Once an alert has been acknowledged no timer callback ever runs    *)
(* escalate on it: whenever a timer callback finds its alert live, the     *)
(* alert is unacknowledged (also after manual escalate calls on the        *)
(* acknowledged alert).                                                    *)
(***************************************************************************)
C2_NoAutoEscalationAfterAck ==
  (last.op = "timer" /\ last.ret # <<>>) => ~last.ret[1].acknowledged

\* an acknowledged alert, created with a timer, has just been escalated by a client to a
\* priority that carries a timeout, and no timer is pending for it
C2_Witness ==
  /\ last.op = "escalate" /\ Escalated
  /\ last.ret[1].acknowledged
  /\ TimeoutOf(last.ret[1].priority) # 0
  /\ ghost[last.id].autoEscalate /\ TimeoutOf(ghost[last.id].created) # 0
  /\ PendingFor(last.id) = {}

(***************************************************************************)
(* C3.  The only pending timer a live alert can have is one armed for its  *)
(* current priority's timeout, so a critical or info alert never has a     *)
(* pending timer.                                                          *)
(* Fails: escalate calls setupEscalation (which cancels the old timer)     *)
(* only when the new priority has a timeout; on high -> critical the timer *)
(* armed for high stays pending.                                           *)
(***************************************************************************)
C3_TimerMatchesPriority ==
  \A t \in timers :
    IsLive(t.id) =>
      /\ t.delay = TimeoutOf(Live(t.id).priority)
      /\ Live(t.id).priority \notin {"critical", "info"}

(***************************************************************************)
(* C4.  At every instant each alert id has at most one pending escalation  *)
(* timer.                                                                  *)
(***************************************************************************)
C4_AtMostOneTimer == \A id \in 1..uuidCount : Cardinality(PendingFor(id)) <= 1

\* a client escalated an unacknowledged low alert whose timer was pending, and the
\* alert has one pending timer again
C4_Witness ==
  /\ last.op = "escalate" /\ Escalated
  /\ ghost[last.id].autoEscalate /\ ghost[last.id].created = "low"
  /\ last.ret[1].priority = "medium" /\ ~last.ret[1].acknowledged
  /\ Cardinality(PendingFor(last.id)) = 1
  /\ \E other \in 1..uuidCount : other # last.id /\ PendingFor(other) # {}

(***************************************************************************)
(* C7.  escalate on a live alert whose priority is one of info, low,       *)
(* medium, high moves it to the next priority of the order                 *)
(* info < low < medium < high < critical, sets priorityLevel to that       *)
(* priority's rank, adds 1 to escalationLevel and appends one escalation   *)
(* note; on a critical alert it changes nothing of the alert, arms no      *)
(* timer and emits nothing.                                                *)
(***************************************************************************)
\* the order the specification gives, by rank
NextPriority(p) == CHOOSE q \in KnownPriorities : priorities[q].level = priorities[p].level + 1

C7_EscalateStep ==
  [][\A id \in 1..uuidCount :
       (IsLive(id) /\ last'.op \in {"escalate", "timer"} /\ last'.id = id)
       => LET old == Live(id)
              new == alerts'[Pos(alerts', id)]
          IN /\ last'.ret = <<new>>
             /\ old.priority \in {"info", "low", "medium", "high"} =>
                  /\ new.priority = NextPriority(old.priority)
                  /\ new.priorityLevel = priorities[new.priority].level
                  /\ new.escalationLevel = old.escalationLevel + 1
                  /\ Len(new.notes) = Len(old.notes) + 1
                  /\ SubSeq(new.notes, 1, Len(old.notes)) = old.notes
                  /\ new.notes[Len(new.notes)].type = "escalation"
             /\ old.priority = "critical" =>
                  /\ new = old
                  /\ timers' \subseteq timers
                  /\ last'.emitted = <<>>]_vars

\* escalate has just been called on a critical alert that an earlier escalate took from high
C7_Witness ==
  /\ EscalateCalled /\ ~Escalated
  /\ last.ret[1].priority = "critical"
  /\ last.ret[1].escalationLevel = 1
  /\ ghost[last.id].created = "high"

(***************************************************************************)
(* C5.  No alert id is both in the live map and in the history; every live *)
(* alert has resolved = FALSE and every history entry resolved = TRUE.     *)
(***************************************************************************)
C5_LiveXorHistory ==
  /\ Ids(alerts) \cap Ids(history) = {}
  /\ \A i \in DOMAIN alerts : ~alerts[i].resolved
  /\ \A j \in DOMAIN history : history[j].resolved

\* one alert is in the history while a note has just been added to the other, live one
C5_Witness ==
  /\ Len(history) = 1 /\ Len(alerts) = 1
  /\ last.op = "addNote" /\ last.ret # <<>>
  /\ Live(last.id).escalationLevel = 1

(***************************************************************************)
(* C6.  As claimed: after resolve(id) succeeds the alert is absent from    *)
(* the live map and from getActive() and, as long as the history bound has *)
(* not evicted it, present in getHistory() (called with its default        *)
(* limit).                                                                 *)
(* Fails: getHistory() returns only the first defaultLimit entries, so an  *)
(* alert still in the history is not returned once defaultLimit alerts     *)
(* have been resolved after it.                                            *)
(***************************************************************************)
NoFilters == [priority |-> NoFilter, category |-> NoFilter, unacknowledged |-> FALSE]

ResolvedIds == {resolvedLog[k].id : k \in DOMAIN resolvedLog}

AwaitsEscalation(id) ==
  /\ IsLive(id)
  /\ ghost[id].autoEscalate
  /\ ghost[id].created \in {"low", "medium", "high"}
  /\ ~Live(id).acknowledged

Settled(id) == ~IsLive(id) \/ Live(id).acknowledged \/ Live(id).priority = "critical"

SecondsOf(p) == CASE p = "low" -> 3600 [] p = "medium" -> 900 [] p = "high" -> 300 [] OTHER -> 0

C8_AutoEscalation ==
  /\ \A id \in 1..MaxFairAlerts : AwaitsEscalation(id) ~> Settled(id)
  /\ [][\A t \in timers :
          (IsLive(t.id) /\ last'.op = "timer" /\ last'.id = t.id /\ last'.emitted # <<>>)
          => /\ Live(t.id).priority \in {"low", "medium", "high"}
             /\ t.delay = SecondsOf(Live(t.id).priority) * 1000
             /\ last'.ret[1].priorityLevel = Live(t.id).priorityLevel + 1]_vars
  /\ [](\A id \in 1..uuidCount :
          (last.op = "timer" /\ last.id = id /\ last.emitted # <<>>
           /\ ghost[id].created \in {"info", "critical"})
          => ghost[id].manual)

\* timers alone have taken an alert created low up to critical
C8_Witness ==
  /\ last.op = "timer" /\ Escalated
  /\ ghost[last.id].created = "low" /\ ~ghost[last.id].manual
  /\ last.ret[1].priority = "critical" /\ last.ret[1].escalationLevel = 3

(***************************************************************************)
(* C10.  The history never holds more than maxHistory entries: it is the   *)
(* most recently resolved min(n, maxHistory) alerts, newest first.         *)
(***************************************************************************)
RECURSIVE Reverse(_)
Reverse(s) == IF s = <<>> THEN <<>> ELSE Append(Reverse(Tail(s)), Head(s))

C10_HistoryBounded ==
  LET n == Len(resolvedLog)
      kept == Min(n, maxHistory)
  IN /\ Len(history) <= maxHistory
     /\ history = Reverse(SubSeq(resolvedLog, n - kept + 1, n))

\* more alerts than the history holds have been resolved, not in the order of their creation
C10_Witness ==
  /\ Len(resolvedLog) > maxHistory
  /\ Len(history) = maxHistory
  /\ resolvedLog[1].id # 1
  /\ last.op = "resolve" /\ last.ret # <<>>

(***************************************************************************)
(* C9.  getActive(filters) returns exactly the unresolved alerts that      *)
(* match the filters, each once, by descending rank of their current       *)
(* priority and, within one rank, by descending creation time.             *)
(***************************************************************************)
Matches(a, f) ==
  /\ f.priority # NoFilter => a.priority = f.priority
  /\ f.category # NoFilter => a.category = f.category
  /\ f.unacknowledged => ~a.acknowledged

ActiveAnswer(res, f) ==
  /\ Range(res) = {a \in Range(alerts) : ~a.resolved /\ Matches(a, f)}
  /\ Len(res) = Cardinality(Range(res))
  /\ \A i, j \in DOMAIN res :
       i < j =>
         \/ LevelOf(res[i].priority) > LevelOf(res[j].priority)
         \/ /\ LevelOf(res[i].priority) = LevelOf(res[j].priority)
            /\ res[i].createdAt >= res[j].createdAt

C9_ActiveOrder ==
  /\ \A f \in Filters({NoFilter, "critical", "medium", UnknownPriority},
                      {NoFilter, "security"}, BOOLEAN) :
       ActiveAnswer(getActive(alerts, f), f)
  /\ last.op = "getActive" => ActiveAnswer(last.ret, last.filters)

\* alerts of priorities low, critical, high, critical created at increasing times:
\* getActive() has returned critical (newer), critical (older), high, low
C9_Witness ==
  /\ Len(alerts) = 4
  /\ [i \in 1..4 |-> alerts[i].priority] = <<"low", "critical", "high", "critical">>
  /\ \A i \in 1..3 : alerts[i].createdAt < alerts[i + 1].createdAt
  /\ last.op = "getActive" /\ last.filters = NoFilters
  /\ [i \in 1..4 |-> last.ret[i].id] = <<4, 2, 3, 1>>

(***************************************************************************)
(* C11.  acknowledge, resolve, escalate, addNote and assign called with an *)
(* id that is not in the live map (never created, or already resolved),    *)
(* and a timer callback firing for such an id, return null, leave the      *)
(* alerts, the history and the timers as they were (a callback only        *)
(* consumes the timer that fired) and emit no event.                       *)
(***************************************************************************)
C11_UnknownIdIsNoOp ==
  [][(last'.op \in {"acknowledge", "resolve", "escalate", "addNote", "assign", "timer"}
      /\ ~IsLive(last'.id))
     => /\ last'.ret = <<>>
        /\ last'.emitted = <<>>
        /\ alerts' = alerts
        /\ history' = history
        /\ escalationTimers' = escalationTimers
        /\ IF last'.op = "timer"
           THEN \E t \in timers : timers' = timers \ {t}
           ELSE timers' = timers]_vars

\* resolve has just been called on an id that was never created, after the one alert
\* created so far has been resolved
C11_Witness ==
  /\ last.op = "resolve" /\ last.ret = <<>>
  /\ last.id > uuidCount
  /\ Len(history) = 1 /\ Len(alerts) = 0
  /\ uuidCount = 1

(***************************************************************************)
(* C12.  Each alert moves only forward through unacknowledged,             *)
(* acknowledged, resolved: from one state to the next its acknowledged     *)
(* flag never goes from true to false, its resolved flag never goes from   *)
(* true to false, and an alert that has left the live map never returns    *)
(* to it.                                                                  *)
(***************************************************************************)
\* the alert with this id, in the live map or in the history: <<alert>>, or <<>> when it is
\* in neither
AlertOf(A, H, id) ==
  IF Pos(A, id) # 0 THEN <<A[Pos(A, id)]>>
  ELSE IF Pos(H, id) # 0 THEN <<H[Pos(H, id)]>>
  ELSE <<>>

C12_OnlyForward ==
  [][\A id \in 1..uuidCount :
       LET old == AlertOf(alerts, history, id)
           new == AlertOf(alerts', history', id)
       IN /\ (old # <<>> /\ new # <<>>) =>
               /\ old[1].acknowledged => new[1].acknowledged
               /\ old[1].resolved => new[1].resolved
          /\ Pos(alerts, id) = 0 => Pos(alerts', id) = 0]_vars

\* an alert was acknowledged with a note, then acknowledged again, and has just been resolved
C12_Witness ==
  /\ last.op = "resolve" /\ last.ret # <<>>
  /\ last.ret[1].acknowledged /\ last.ret[1].resolved
  /\ Len(last.ret[1].notes) = 1
  /\ last.ret[1].escalationLevel = 0
  /\ Len(alerts) = 1 /\ ~alerts[1].acknowledged

(***************************************************************************)
(* C13.  requiresEscalation(order, responses) is true if the order's       *)
(* policy has always_notify set, or if at least one of the terms obtained  *)
(* by splitting the threshold expression on " OR " occurs, compared        *)
(* case-insensitively, in the concatenated response texts; it is false     *)
(* when the order has no policy or when no term occurs.                    *)
(* Fails: the code lower-cases the expression before it splits it on       *)
(* " OR ", so an expression written with OR is never split and is looked   *)
(* for as one term.                                                        *)
(***************************************************************************)
\* the terms of a threshold expression: the pieces between the separators
ThresholdTerms(threshold) == split(threshold, ThresholdSeparator)

SomeTermOccurs(threshold, responses) ==
  LET text == toLowerCase(join([i \in DOMAIN responses |-> responses[i].response], <<" ">>))
      terms == ThresholdTerms(threshold)
  IN \E k \in DOMAIN terms : includes(text, toLowerCase(trim(terms[k])))

C13_RequiresEscalation ==
  last.op = "requiresEscalation" =>
    LET policy == last.arg.escalation
    IN last.ret[1] <=>
         /\ policy # <<>>
         /\ \/ policy[1].always_notify
            \/ /\ policy[1].threshold # <<>>
               /\ SomeTermOccurs(policy[1].threshold, last.responses)

(***************************************************************************)
(* C14.  checkTrigger(name, context) emits at most one 'trigger' event per *)
(* call.  If some configured order's trigger equals name it returns true,  *)
(* appends exactly one 'triggered' log entry and emits exactly one event,  *)
(* for the first such order only; if none matches it returns false, emits  *)
(* nothing and appends no log entry.  The same holds for the call a        *)
(* monitor poll makes.                                                     *)
(***************************************************************************)
\* the positions of the orders whose trigger is name
Matching(name) == {i \in DOMAIN orders : orders[i].trigger = name}

FirstMatching(name) == CHOOSE i \in Matching(name) : \A j \in Matching(name) : i <= j

\* the log after exactly one more call of log, for this order and action
OneEntryAppended(orderId, action) ==
  /\ logs' # <<>>
  /\ logs'[Len(logs')].seq = Logged + 1
  /\ logs'[Len(logs')].orderId = orderId
  /\ logs'[Len(logs')].action = action
  /\ \A k \in 1..(Len(logs') - 1) : \E k2 \in DOMAIN logs : logs[k2] = logs'[k]

C15_OneMonitorPerOrder ==
  /\ \A i \in DOMAIN orders :
       Cardinality({t \in intervals : t.orderId = orders[i].id}) <= 1
  /\ \A t \in intervals :
       t.orderId \in DOMAIN activeMonitors /\ activeMonitors[t.orderId] = t.h

(***************************************************************************)
(* C16.  Constructing the matcher never fails: when the configuration file *)
(* is missing, unparsable, empty or lacks the standing_orders key, the     *)
(* matcher starts with an empty order set and getActiveCount() returns 0.  *)
(* Fails: yaml.parse throws on an unparsable file, and gives null for an   *)
(* empty one, whose property standing_orders cannot be read.               *)
(***************************************************************************)
C16_ConstructorNeverFails ==
  configFile.kind \in {"missing", "unparsable", "empty", "noKey"}
  => (Constructed /\ getActiveCount(orders) = 0)

(***************************************************************************)
(* C17.  The activity log never holds more than maxLogs entries, keeps     *)
(* them in append order with the oldest dropped first, and getLogs(limit)  *)
(* returns exactly the most recent min(limit, log size) entries for every  *)
(* limit >= 0.                                                             *)
(* Fails: getLogs(0) is this.logs.slice(-0), the whole log.                *)
(***************************************************************************)
C17_LogBounded ==
  /\ Len(logs) <= maxLogs
  /\ \A k \in 1..(Len(logs) - 1) : logs[k + 1].seq = logs[k].seq + 1
  /\ \A limit \in 0..(maxLogs + 1) :
       LET n == Min(limit, Len(logs))
       IN getLogs(logs, limit) = SubSeq(logs, Len(logs) - n + 1, Len(logs))

(***************************************************************************)
(* C18.  escalate(order, responses) appends one 'escalated' log entry and  *)
(* emits exactly one escalation event whose priority is the policy's       *)
(* priority, or "high" when none is set, and whose requiresAcknowledgment  *)
(* is true exactly when authority_level >= 4; the 'escalation' listener    *)
(* turns the event into exactly one new alert with that priority,          *)
(* category operational and requiresAck equal to requiresAcknowledgment.   *)
(* A listener whose responses need no escalation emits nothing and creates *)
(* no alert.                                                               *)
(***************************************************************************)
EscalationEvents(events) == SelectSeq(events, LAMBDA e : e.name = "escalation")

C18_Escalate ==
  [][last'.op = "execution" =>
       IF last'.ret = <<TRUE>>
       THEN LET order == last'.arg
                events == EscalationEvents(last'.emitted)
            IN /\ OneEntryAppended(order.id, "escalated")
               /\ Len(events) = 1
               /\ events[1].escalation.orderId = order.id
               /\ events[1].escalation.priority =
                    (IF order.escalation # <<>> /\ order.escalation[1].priority # Null
                     THEN order.escalation[1].priority ELSE "high")
               /\ events[1].escalation.requiresAcknowledgment = (order.authority_level >= 4)
               /\ Len(alerts') = Len(alerts) + 1
               /\ SubSeq(alerts', 1, Len(alerts)) = alerts
               /\ LET alert == alerts'[Len(alerts')]
                  IN /\ alert.id \notin Ids(alerts) \cup Ids(history)
                     /\ alert.priority = events[1].escalation.priority
                     /\ alert.category = "operational"
                     /\ alert.requiresAck = events[1].escalation.requiresAcknowledgment
                     /\ ~alert.acknowledged /\ ~alert.resolved
       ELSE /\ last'.emitted = <<>>
            /\ alerts' = alerts
            /\ logs' = logs]_vars

\* two escalations have become alerts: one of an order of authority level 4 with policy
\* priority critical, and just now one of an order of level 3 with a threshold and no priority
C18_Witness ==
  /\ last.op = "execution" /\ last.ret = <<TRUE>>
  /\ last.arg.id = "reveille"
  /\ Len(alerts) = 2
  /\ alerts[1].priority = "critical" /\ alerts[1].requiresAck
  /\ alerts[2].priority = "high" /\ ~alerts[2].requiresAck
  /\ PendingFor(alerts[2].id) # {}

(***************************************************************************)
(* C19.  A single ingest emits exactly one sensor:trigger event per        *)
(* satisfied rule of the sensor's type: no rule suppresses another and     *)
(* none fires twice.  Every such event carries the reading ingested and    *)
(* that reading's timestamp, and the sensor's triggerCount grows by        *)
(* exactly the number of events.                                           *)
(***************************************************************************)
\* the rule table: the rules of the type that the reading d satisfies on this sensor
SatisfiedRules(sensor, d) ==
  LET c == sensor.config
      outside == d.position # <<>> /\ checkGeofenceBreach(geofences, d.position[1], c.geofence)
  IN { n \in sensorTypes[sensor.type] :
         \/ sensor.type = "camera" /\ n = "motion_detected" /\ d.motion
         \/ sensor.type = "camera" /\ n = "person_detected" /\ d.persons > 0
         \/ sensor.type = "camera" /\ n = "vehicle_detected" /\ d.vehicles > 0
         \/ sensor.type = "camera" /\ n = "face_match" /\ \E f \in d.faceIds : f \in faces
         \/ sensor.type = "drone" /\ n = "low_battery" /\ Less(d.battery, 20)
         \/ sensor.type = "drone" /\ n = "geofence_breach" /\ outside
         \/ sensor.type = "gps_tracker" /\ n = "battery_low" /\ Less(d.battery, 15)
         \/ sensor.type = "gps_tracker" /\ n = "speed_alert"
              /\ Greater(d.speed, OrDefault(c.speedLimit, 150))
         \/ sensor.type = "gps_tracker" /\ n = "sos_activated" /\ d.sos
         \/ sensor.type = "gps_tracker" /\ n = "geofence_breach" /\ outside
         \/ sensor.type = "motion_sensor" /\ n = "motion_detected" /\ d.triggered
         \/ sensor.type = "motion_sensor" /\ n = "tamper_alert" /\ d.tamper
         \/ sensor.type = "environmental" /\ n = "smoke_detected"
              /\ Greater(d.smoke, OrDefault(c.smokeThreshold, 50))
         \/ sensor.type = "environmental" /\ n = "gas_leak"
              /\ Greater(d.gas, OrDefault(c.gasThreshold, 100))
         \/ sensor.type = "environmental" /\ n = "temperature_alert"
              /\ (Less(d.temperature, OrDefault(c.tempMin, 0))
                  \/ Greater(d.temperature, OrDefault(c.tempMax, 50)))
         \/ sensor.type = "access_control" /\ n = "access_denied" /\ ~d.granted
         \/ sensor.type = "access_control" /\ n = "forced_entry" /\ d.event_type = "forced"
         \/ sensor.type = "radio" /\ n = "unknown_frequency" /\ d.unknown_source
         \/ sensor.type = "radio" /\ n = "jamming_detected" /\ d.jamming }

SensorTriggerEvents(events) == SelectSeq(events, LAMBDA e : e.name = "sensor:trigger")

Fired(events) == {SensorTriggerEvents(events)[k].trigger : k \in DOMAIN SensorTriggerEvents(events)}

C19_OneTriggerPerRule ==
  [][(last'.op = "ingest" /\ ~last'.threw) =>
       LET i == MapPos(sensors, last'.arg)
           point == last'.ret[1]
           events == SensorTriggerEvents(last'.emitted)
       IN /\ Fired(last'.emitted) = SatisfiedRules(sensors[i], last'.data)
          /\ Len(events) = Cardinality(Fired(last'.emitted))
          /\ point.reading = last'.data
          /\ point.timestamp =
               (IF last'.data.timestamp # <<>> THEN last'.data.timestamp[1] ELSE now')
          /\ \A k \in DOMAIN events :
               /\ events[k].data = point
               /\ events[k].timestamp = point.timestamp
               /\ events[k].sensorId = last'.arg
          /\ sensors'[i].stats.triggerCount = sensors[i].stats.triggerCount + Len(events)]_vars

\* the second reading of a gps tracker satisfies all four of its rules, after a first
\* reading that satisfied none
C19_Witness ==
  /\ last.op = "ingest" /\ ~last.threw
  /\ sensors[MapPos(sensors, last.arg)].type = "gps_tracker"
  /\ Fired(last.emitted) = {"battery_low", "speed_alert", "sos_activated", "geofence_breach"}
  /\ sensors[MapPos(sensors, last.arg)].stats.dataCount = 2
  /\ sensors[MapPos(sensors, last.arg)].stats.triggerCount = 4

(***************************************************************************)
(* C20.  A configured threshold is used for every value it can take,       *)
(* including 0: on ingest smoke_detected fires iff smoke > smokeThreshold, *)
(* gas_leak iff gas > gasThreshold, speed_alert iff speed > speedLimit,    *)
(* temperature_alert iff temperature < tempMin or temperature > tempMax;   *)
(* the defaults 50, 100, 150 and [0, 50] apply only when the value is not  *)
(* configured.                                                             *)
(* Fails: the code reads a threshold as `configured || default`, so a      *)
(* configured 0 is replaced by the default.                                *)
(***************************************************************************)
\* the configured value, or the default when none is configured
Configured(v, default) == IF v = <<>> THEN default ELSE v[1]

C20_ThresholdsUsed ==
  (last.op = "ingest" /\ ~last.threw) =>
    LET sensor == sensors[MapPos(sensors, last.arg)]
        c == sensor.config
        d == last.data
        fired == Fired(last.emitted)
    IN /\ sensor.type = "environmental" =>
            /\ "smoke_detected" \in fired <=> Greater(d.smoke, Configured(c.smokeThreshold, 50))
            /\ "gas_leak" \in fired <=> Greater(d.gas, Configured(c.gasThreshold, 100))
            /\ "temperature_alert" \in fired <=>
                 \/ Less(d.temperature, Configured(c.tempMin, 0))
                 \/ Greater(d.temperature, Configured(c.tempMax, 50))
       /\ sensor.type = "gps_tracker" =>
            ("speed_alert" \in fired <=> Greater(d.speed, Configured(c.speedLimit, 150)))

(***************************************************************************)
(* C21.  After every successful ingest the sensor's lastSeen is the        *)
(* timestamp of the reading ingested, and its buffer holds at most         *)
(* bufferSize readings: the most recent min(n, bufferSize) of the n        *)
(* readings ingested since registration, in arrival order, the oldest      *)
(* evicted first.  Stated step by step: registration leaves an empty       *)
(* buffer and a count of 0, an ingest leaves the most recent bufferSize of *)
(* the old buffer followed by the new reading, and no other step touches   *)
(* a buffer.                                                               *)
(***************************************************************************)
\* the last n elements of seq, or all of them when there are fewer
MostRecent(seq, n) == SubSeq(seq, Len(seq) - Min(n, Len(seq)) + 1, Len(seq))

C21_BufferHoldsMostRecent ==
  [][/\ (last'.op = "ingest" /\ ~last'.threw) =>
          LET id == last'.arg
              sensor == sensors'[MapPos(sensors', id)]
              point == last'.ret[1]
          IN /\ sensor.lastSeen = point.timestamp
             /\ dataBuffer'[id] = MostRecent(Append(dataBuffer[id], point), bufferSize)
             /\ Len(dataBuffer'[id]) = Min(sensor.stats.dataCount, bufferSize)
             /\ sensor.stats.dataCount = sensors[MapPos(sensors, id)].stats.dataCount + 1
             /\ \A other \in DOMAIN dataBuffer' \ {id} : dataBuffer'[other] = dataBuffer[other]
     /\ (last'.op = "register" /\ ~last'.threw) =>
          /\ dataBuffer'[last'.arg.id] = <<>>
          /\ sensors'[MapPos(sensors', last'.arg.id)].stats.dataCount = 0
     /\ last'.op # "ingest" =>
          \A id \in DOMAIN dataBuffer' :
            (last'.op = "register" /\ ~last'.threw /\ id = last'.arg.id)
            \/ (id \in DOMAIN dataBuffer /\ dataBuffer'[id] = dataBuffer[id])]_vars

\* the third reading of a sensor has pushed the first out of its buffer
C21_Witness ==
  /\ last.op = "ingest" /\ ~last.threw
  /\ sensors[MapPos(sensors, last.arg)].stats.dataCount = bufferSize + 1
  /\ Len(dataBuffer[last.arg]) = bufferSize
  /\ dataBuffer[last.arg][bufferSize] = last.ret[1]
  /\ dataBuffer[last.arg][1] # dataBuffer[last.arg][bufferSize]

(***************************************************************************)
(* C22.  register with a type outside the eight sensor types throws, and   *)
(* ingest with an id that is not registered (never, or unregistered since) *)
(* throws; in both cases the sensor map, the buffers and the counters are  *)
(* unchanged and no event is emitted.                                      *)
(* Fails: register looks the type up as a property of an object literal,   *)
(* so a name inherited from Object.prototype passes as a type.             *)
(***************************************************************************)
C22_UnknownRejected ==
  [][/\ last'.op = "register" => (last'.threw <=> last'.arg.type \notin DOMAIN sensorTypes)
     /\ last'.op = "ingest" => (last'.threw <=> MapPos(sensors, last'.arg) = 0)
     /\ (last'.op \in {"register", "ingest"} /\ last'.threw) =>
          /\ UNCHANGED <<sensors, dataBuffer>>
          /\ last'.emitted = <<>>]_vars

(***************************************************************************)
(* C23.  Every successful ingest emits exactly one sensor:data event and   *)
(* exactly one sensor:data:<type> event, whether or not a rule is          *)
(* satisfied; both are emitted when the sensor's state and buffer are      *)
(* already updated, and before any sensor:trigger event of that ingest.    *)
(***************************************************************************)
EventsNamed(events, name) == SelectSeq(events, LAMBDA e : e.name = name)

C23_DataEventsFirst ==
  [][(last'.op = "ingest" /\ ~last'.threw) =>
       LET id == last'.arg
           old == sensors[MapPos(sensors, id)]
           point == last'.ret[1]
           seen == last'.atEmit[1]
           events == last'.emitted
       IN /\ Len(EventsNamed(events, "sensor:data")) = 1
          /\ Len(EventsNamed(events, "sensor:data:" \o old.type)) = 1
          /\ events[1] = [name |-> "sensor:data", data |-> point]
          /\ events[2] = [name |-> "sensor:data:" \o old.type, data |-> point]
          /\ seen.sensor.lastData = <<point>>
          /\ seen.sensor.lastSeen = point.timestamp
          /\ seen.sensor.status = "online"
          /\ seen.sensor.stats.dataCount = old.stats.dataCount + 1
          /\ seen.sensor.stats.triggerCount = old.stats.triggerCount
          /\ seen.buffer = dataBuffer'[id]
          /\ seen.buffer[Len(seen.buffer)] = point]_vars

\* an ingest that satisfied no rule emitted the two data events and nothing else
C23_Witness ==
  /\ last.op = "ingest" /\ ~last.threw
  /\ Len(last.emitted) = 2
  /\ last.emitted[2].name = "sensor:data:camera"

(***************************************************************************)
(* C24.  unregister(id) on a registered sensor returns true, removes the   *)
(* sensor and its buffer and emits exactly one sensor:unregistered event;  *)
(* on an unknown id, a second unregister of the same id included, it       *)
(* returns false, changes nothing and emits nothing.                       *)
(***************************************************************************)
C24_Unregister ==
  [][last'.op = "unregister" =>
       LET id == last'.arg
           i == MapPos(sensors, id)
       IN /\ i # 0 =>
               /\ last'.ret = <<TRUE>>
               /\ MapPos(sensors', id) = 0
               /\ id \notin DOMAIN dataBuffer'
               /\ sensors' = SelectSeq(sensors, LAMBDA s : s.id # id)
               /\ \A other \in DOMAIN dataBuffer \ {id} :
                    other \in DOMAIN dataBuffer' /\ dataBuffer'[other] = dataBuffer[other]
               /\ last'.emitted = <<[name |-> "sensor:unregistered", sensor |-> sensors[i]]>>
          /\ i = 0 =>
               /\ last'.ret = <<FALSE>>
               /\ UNCHANGED <<sensors, dataBuffer>>
               /\ last'.emitted = <<>>
          /\ (last.op = "unregister" /\ last.arg = id) => last'.ret = <<FALSE>>]_vars

\* a sensor with two readings was unregistered, and the other sensor is still there
C24_Witness ==
  /\ last.op = "unregister" /\ last.ret = <<TRUE>>
  /\ last.emitted[1].sensor.stats.dataCount = 2
  /\ last.arg \notin DOMAIN dataBuffer
  /\ Len(sensors) = 1

(***************************************************************************)
(* C25.  markOffline(id) on a registered sensor sets its status to offline *)
(* and emits one sensor:offline event, leaving lastData, lastSeen, the     *)
(* buffer and the counters unchanged; the next successful ingest sets the  *)
(* status back to online; on an unknown id markOffline changes nothing and *)
(* emits nothing.                                                          *)
(***************************************************************************)
C25_MarkOffline ==
  [][/\ last'.op = "markOffline" =>
          LET id == last'.arg
              i == MapPos(sensors, id)
          IN /\ i # 0 =>
                  /\ sensors' = [sensors EXCEPT ![i].status = "offline"]
                  /\ sensors'[i].lastData = sensors[i].lastData
                  /\ sensors'[i].lastSeen = sensors[i].lastSeen
                  /\ sensors'[i].stats = sensors[i].stats
                  /\ Len(EventsNamed(last'.emitted, "sensor:offline")) = 1
                  /\ last'.emitted[1].sensor = sensors'[i]
             /\ i = 0 => sensors' = sensors /\ last'.emitted = <<>>
             /\ dataBuffer' = dataBuffer
     /\ (last'.op = "ingest" /\ ~last'.threw) =>
          sensors'[MapPos(sensors', last'.arg)].status = "online"]_vars

\* a sensor that has a reading was marked offline
C25_Witness ==
  /\ last.op = "markOffline"
  /\ MapPos(sensors, last.arg) # 0
  /\ sensors[MapPos(sensors, last.arg)].status = "offline"
  /\ sensors[MapPos(sensors, last.arg)].lastData # <<>>
  /\ Len(dataBuffer[last.arg]) = 2

(***************************************************************************)
(* C28.  After any sequence of register, unregister, ingest and            *)
(* markOffline, getCounts of the sensor system returns total equal to the  *)
(* number of registered sensors, and the byType counts and the byStatus    *)
(* counts each sum to total.                                               *)
(* Fails: byType is an object literal, so for a sensor whose type is a     *)
(* name inherited from Object.prototype the entry is a string, not a       *)
(* count.                                                                  *)
(***************************************************************************)
RECURSIVE SumOver(_, _)
SumOver(f, keys) ==
  IF keys = {} THEN 0
  ELSE LET k == CHOOSE x \in keys : TRUE IN f[k] + SumOver(f, keys \ {k})

C28_CountsPartition ==
  last.op = "sensorCounts" =>
    LET counts == last.ret[1]
    IN /\ counts.total = Len(sensors)
       /\ \A t \in DOMAIN counts.byType : counts.byType[t].isNumber
       /\ SumOver([t \in DOMAIN counts.byType |-> counts.byType[t].n], DOMAIN counts.byType)
            = counts.total
       /\ SumOver(counts.byStatus, DOMAIN counts.byStatus) = counts.total

(***************************************************************************)
(* C26.  checkGeofenceBreach returns false for every position when no      *)
(* geofence is configured, when the configured geofence id has not been    *)
(* added, and when the geofence has a type that is neither circle nor      *)
(* polygon; a reading of a drone or a tracker then never produces          *)
(* geofence_breach.                                                        *)
(***************************************************************************)
\* no geofence named, none added under the name, or one of an unknown type
Unusable(geofenceId) ==
  \/ geofenceId = <<>>
  \/ \A i \in DOMAIN geofences : geofences[i].id # geofenceId[1]
  \/ \E i \in DOMAIN geofences :
       geofences[i].id = geofenceId[1] /\ geofences[i].type \notin {"circle", "polygon"}

C26_FailsOpen ==
  /\ (last.op = "checkGeofenceBreach" /\ Unusable(last.fence)) => last.ret = <<FALSE>>
  /\ (last.op = "ingest" /\ ~last.threw
        /\ Unusable(sensors[MapPos(sensors, last.arg)].config.geofence)) =>
       "geofence_breach" \notin Fired(last.emitted)

\* a tracker whose geofence is of an unknown type, added, reported a position and no
\* trigger followed
C26_Witness ==
  /\ last.op = "ingest" /\ ~last.threw
  /\ sensors[MapPos(sensors, last.arg)].config.geofence = <<"odd">>
  /\ MapPos(geofences, "odd") # 0
  /\ last.data.position = <<Point(3, 3)>>
  /\ Fired(last.emitted) = {}

(***************************************************************************)
(* C27.  For a geofence that has been added checkGeofenceBreach returns    *)
(* true exactly when the position is outside it: for a circle when the     *)
(* distance to the center exceeds the radius, for a polygon when the point *)
(* is not inside the closed polygon, convex or not.  A point strictly      *)
(* inside gives false and a point outside gives true.                      *)
(***************************************************************************)
\* the distance from p to q exceeds r metres.  One thousandth of a degree of a great
\* circle of radius 6,371,000 m is 111.195 m, 1112 dm; on the grid the sphere is flat to
\* less than a decimetre, so the squares of the distances are compared, in dm
Farther(p, q, r) ==
  1112 * 1112 * ((p.lat - q.lat) * (p.lat - q.lat) + (p.lng - q.lng) * (p.lng - q.lng))
    > (10 * r) * (10 * r)

\* the regions of the two polygons, without their borders
StrictlyInside(id, p) ==
  CASE id = "square" -> p.lat > 0 /\ p.lat < 3 /\ p.lng > 0 /\ p.lng < 3
    [] id = "ell"    -> /\ p.lat > 0 /\ p.lat < 4 /\ p.lng > 0 /\ p.lng < 4
                        /\ (p.lat < 2 \/ p.lng < 2)
    [] OTHER -> FALSE

StrictlyOutside(id, p) ==
  CASE id = "square" -> p.lat < 0 \/ p.lat > 3 \/ p.lng < 0 \/ p.lng > 3
    [] id = "ell"    -> \/ p.lat < 0 \/ p.lat > 4 \/ p.lng < 0 \/ p.lng > 4
                        \/ (p.lat > 2 /\ p.lng > 2)
    [] OTHER -> FALSE

C27_BreachIffOutside ==
  (last.op = "checkGeofenceBreach" /\ last.fence # <<>>
     /\ MapPos(geofences, last.fence[1]) # 0) =>
    LET g == geofences[MapPos(geofences, last.fence[1])]
    IN /\ g.type = "circle" => last.ret = <<Farther(last.arg, g.center, g.radius)>>
       /\ (g.type = "polygon" /\ StrictlyInside(g.id, last.arg)) => last.ret = <<FALSE>>
       /\ (g.type = "polygon" /\ StrictlyOutside(g.id, last.arg)) => last.ret = <<TRUE>>

\* a position in the corner the L leaves out is a breach
C27_Witness ==
  /\ last.op = "checkGeofenceBreach"
  /\ last.fence = <<"ell">> /\ MapPos(geofences, "ell") # 0
  /\ last.arg = Point(3, 3)
  /\ last.ret = <<TRUE>>

(***************************************************************************)
(* C29.  A newly created alert has status 'active' and acknowledged false, *)
(* and the alert resolve(id, actor, resolution) returns has status         *)
(* 'resolved', resolvedBy equal to actor and resolution equal to the       *)
(* resolution text given.                                                  *)
(* Fails: an alert has no property status and no property resolution; the  *)
(* resolution text is only kept as a note.                                 *)
(***************************************************************************)
\* object[name]: <<>> (undefined) when the object has no such property
Property(object, name) == IF name \in DOMAIN object THEN <<object[name]>> ELSE <<>>

C29_StatusAndResolution ==
  /\ (last.op = "create" /\ last.ret # <<>>) =>
       /\ Property(last.ret[1], "status") = <<"active">>
       /\ last.ret[1].acknowledged = FALSE
  /\ (last.op = "resolve" /\ last.ret # <<>>) =>
       /\ Property(last.ret[1], "status") = <<"resolved">>
       /\ last.ret[1].resolvedBy = last.userId
       /\ Property(last.ret[1], "resolution") = <<last.resolution>>

(***************************************************************************)
(* C30.  getCounts of the alert system returns total, the number of active *)
(* alerts, with the counts grouped by priority (byPriority) and by         *)
(* category (byCategory): each group count is the number of active alerts  *)
(* of that priority or category, so the counts by priority sum to total.   *)
(* Fails: the object returned has no byPriority and no byCategory; the     *)
(* counts by priority are its own properties and categories are not        *)
(* counted.                                                                *)
(***************************************************************************)
CountWhere(A, Test(_)) == Len(SelectSeq(A, Test))

C30_GroupedCounts ==
  last.op = "alertCounts" =>
    LET counts == last.ret[1]
        active == SelectSeq(alerts, LAMBDA a : ~a.resolved)
        byPriority == Property(counts, "byPriority")
        byCategory == Property(counts, "byCategory")
    IN /\ counts.total = Len(active)
       /\ byPriority # <<>>
       /\ byCategory # <<>>
       /\ \A i \in DOMAIN active :
            /\ Property(byPriority[1], active[i].priority)
                 = <<CountWhere(active, LAMBDA a : a.priority = active[i].priority)>>
            /\ Property(byCategory[1], active[i].category)
                 = <<CountWhere(active, LAMBDA a : a.category = active[i].category)>>

(***************************************************************************)
(* C31.  Each alert operation that succeeds emits the event of its own     *)
(* name exactly once within the call (create alert:created, acknowledge    *)
(* alert:acknowledged, resolve alert:resolved, an escalate that changes    *)
(* the priority alert:escalated, addNote alert:updated, assign             *)
(* alert:assigned); the event carries the alert as the operation leaves    *)
(* it, which is the alert returned; an operation on an unknown id, and an  *)
(* escalate that leaves the priority as it was, emit nothing.              *)
(***************************************************************************)
\* the event each operation emits for itself
OwnEvent(op) ==
  CASE op = "create"      -> "alert:created"
    [] op = "acknowledge" -> "alert:acknowledged"
    [] op = "resolve"     -> "alert:resolved"
    [] op = "escalate"    -> "alert:escalated"
    [] op = "timer"       -> "alert:escalated"
    [] op = "addNote"     -> "alert:updated"
    [] op = "assign"      -> "alert:assigned"

AlertOperations ==
  {"create", "acknowledge", "resolve", "escalate", "timer", "addNote", "assign"}

C31_OwnEventOnce ==
  [][last'.op \in AlertOperations =>
       LET id == last'.id
           before == AlertOf(alerts, history, id)
           after == AlertOf(alerts', history', id)
           own == EventsNamed(last'.emitted, OwnEvent(last'.op))
           noOp == \/ last'.ret = <<>>
                   \/ /\ last'.op \in {"escalate", "timer"}
                      /\ after[1].priority = before[1].priority
       IN IF noOp
          THEN last'.emitted = <<>>
          ELSE /\ Len(own) = 1
               /\ own[1].alert = after[1]
               /\ own[1].alert = last'.ret[1]
               /\ \A i \in DOMAIN last'.emitted :
                    last'.emitted[i].name \in {OwnEvent(last'.op), "alert"}]_vars

\* an acknowledged alert that was escalated once has just been assigned: the event carries
\* the assignee, the escalation note and the assignment note
C31_Witness ==
  /\ last.op = "assign" /\ last.ret # <<>>
  /\ Len(last.emitted) = 1
  /\ last.emitted[1].name = "alert:assigned"
  /\ last.emitted[1].alert.assignedTo = "agent"
  /\ last.emitted[1].alert.acknowledged
  /\ Len(last.emitted[1].alert.notes) = 2

(***************************************************************************)
(* The monitor specification: the matcher constructed on a configuration   *)
(* with two orders scheduled for the same time by the same trigger string, *)
(* their monitors started, polled and stopped, and the suspended 'trigger' *)
(* listeners going on.                                                     *)
(***************************************************************************)
\* two time-based orders with one trigger string
ConfigC ==
  << Order("reveille", "time == 0600", 3, <<>>),
     Order("colors", "time == 0600", 3, Policy(TRUE, <<>>, "high")) >>

InitMonitors ==
  /\ AlertSystem_constructor
  /\ StandingOrders_constructor([kind |-> "orders", standing_orders |-> ConfigC])
  /\ SensorSystem_constructor
  /\ last = [op |-> "init", id |-> 0, ret |-> <<>>, emitted |-> <<>>]

NextMonitors ==
  \/ InitializeMonitors
  \/ \E orderId \in {"reveille", "colors"} : StartTimeBasedMonitor(orderId)
  \/ \E orderId \in {"reveille", "colors"} : StopMonitor(orderId)
  \/ \E t \in intervals, currentTime \in {"0559", "0600"} : MonitorPoll(t, currentTime)
  \/ \E k \in 1..MaxExecutions : ExecutionDone(k, <<>>)
  \/ \E k \in 1..MaxExecutions : ExecutionFails(k)

SpecMonitors == InitMonitors /\ [][NextMonitors]_vars

(***************************************************************************)
(* C32.  When the poll of the monitor started for order O reads a clock    *)
(* equal to O's HHMM, exactly one order-fired event results and it carries *)
(* order O, for every time-based order configured, also when two orders    *)
(* have the same "time == HHMM" trigger string.                            *)
(* Fails: the poll calls checkTrigger with the trigger string, and         *)
(* checkTrigger fires the first order that has this string, so the monitor *)
(* of the second of two such orders fires the first one.                   *)
(***************************************************************************)
C32_MonitorFiresOwnOrder ==
  (last.op = "poll" /\ last.time = last.arg.targetTime) =>
    /\ Len(EventsNamed(last.emitted, "trigger")) = 1
    /\ last.emitted[1].order.id = last.arg.orderId
    /\ last.emitted[1].order = FiredOrder(orders[OrderPos(orders, last.arg.orderId)])

(***************************************************************************)
(* C33.  Within an ingest call the listener of sensor:trigger creates, for *)
(* each trigger event, exactly one critical security alert with            *)
(* requiresAck for forced_entry, sos_activated, smoke_detected, gas_leak   *)
(* and face_match, exactly one high security alert with requiresAck for    *)
(* geofence_breach, tamper_alert and jamming_detected, and no alert for    *)
(* any other trigger; it calls checkTrigger at most once per trigger, so   *)
(* that a reading with k triggers yields at most k order-fired events.     *)
(***************************************************************************)
\* the positions of the sensor:trigger events among the events of a call
TriggerPositions(events) == {k \in DOMAIN events : events[k].name = "sensor:trigger"}

\* what the listeners emitted for the sensor:trigger event at position k: the events
\* after it, up to the next sensor:trigger event
Caused(events, k) ==
  LET later == {j \in TriggerPositions(events) : j > k}
      end == IF later = {} THEN Len(events)
             ELSE (CHOOSE j \in later : \A i \in later : j <= i) - 1
  IN SubSeq(events, k + 1, end)

\* the priority of the alert the listener owes to a trigger: <<>> when it owes none
AlertPriorityFor(trigger) ==
  IF trigger \in {"forced_entry", "sos_activated", "smoke_detected", "gas_leak", "face_match"}
  THEN <<"critical">>
  ELSE IF trigger \in {"geofence_breach", "tamper_alert", "jamming_detected"}
       THEN <<"high">>
       ELSE <<>>

C33_OneAlertPerTrigger ==
  [][(last'.op = "ingest" /\ ~last'.threw) =>
       LET events == last'.emitted
           owed == {k \in TriggerPositions(events) : AlertPriorityFor(events[k].trigger) # <<>>}
       IN /\ uuidCount' - uuidCount = Cardinality(owed)
          /\ Len(alerts') = Len(alerts) + Cardinality(owed)
          /\ Len(EventsNamed(events, "trigger")) <= Cardinality(TriggerPositions(events))
          /\ \A k \in TriggerPositions(events) :
               LET created == EventsNamed(Caused(events, k), "alert:created")
                   priority == AlertPriorityFor(events[k].trigger)
               IN /\ Len(EventsNamed(Caused(events, k), "trigger")) <= 1
                  /\ IF priority = <<>>
                     THEN created = <<>>
                     ELSE /\ Len(created) = 1
                          /\ created[1].alert.priority = priority[1]
                          /\ created[1].alert.category = "security"
                          /\ created[1].alert.requiresAck
                          /\ created[1].alert.createdAt = now'
                          /\ Pos(alerts', created[1].alert.id) # 0
                          /\ Pos(alerts, created[1].alert.id) = 0]_vars

\* a reading of a gps tracker fired its four triggers: sos_activated and geofence_breach
\* each brought an alert, and sos_activated fired a standing order
C33_Witness ==
  /\ last.op = "ingest" /\ ~last.threw
  /\ Fired(last.emitted) = {"battery_low", "speed_alert", "sos_activated", "geofence_breach"}
  /\ Len(EventsNamed(last.emitted, "alert:created")) = 2
  /\ Len(EventsNamed(last.emitted, "trigger")) = 1
  /\ Len(alerts) = 2
  /\ {alerts[1].priority, alerts[2].priority} = {"critical", "high"}

(***************************************************************************)
(* C34.  An alert created with autoEscalate = false never has a pending    *)
(* escalation timer, whatever operations follow, manual escalate calls     *)
(* included, so no timer callback ever escalates it.                       *)
(* Fails: the alert does not keep the option; escalate arms a timer        *)
(* whenever the new priority has a timeout.                                *)
(***************************************************************************)
C34_NoTimerWithoutAutoEscalate ==
  /\ \A id \in 1..uuidCount : ~ghost[id].autoEscalate => PendingFor(id) = {}
  /\ (last.op = "timer" /\ last.ret # <<>>) => ghost[last.id].autoEscalate

(***************************************************************************)
(* C35.  Every pending escalation timer belongs to an alert that is in the *)
(* live map, unresolved and unacknowledged: after any sequence of          *)
(* operations and timer callbacks no timer is pending for an id that has   *)
(* been acknowledged or resolved.                                          *)
(***************************************************************************)
C35_TimersOfOpenAlerts ==
  \A t \in timers :
    /\ IsLive(t.id)
    /\ ~Live(t.id).resolved
    /\ ~Live(t.id).acknowledged
    /\ Pos(history, t.id) = 0

\* of two alerts created with a timer, the first was acknowledged and then resolved; the
\* one timer still pending is the second alert's
C35_Witness ==
  /\ last.op = "resolve" /\ last.ret # <<>>
  /\ last.ret[1].acknowledged
  /\ ghost[last.id].autoEscalate /\ TimeoutOf(ghost[last.id].created) # 0
  /\ Len(alerts) = 1
  /\ Cardinality(timers) = 1
  /\ PendingFor(alerts[1].id) = timers

(***************************************************************************)
(* The acknowledgment specification: up to MaxAlerts security alerts,      *)
(* which require acknowledgment when critical or high, acknowledged and    *)
(* resolved in any order while their timers run.                           *)
(***************************************************************************)
NextAck ==
  \/ \E p \in {"critical", "high", "medium"} : Create(MaxAlerts, security(p), now)
  \/ \E id \in 1..MaxAlerts : Acknowledge(id, User, Null)
  \/ \E id \in 1..MaxAlerts : Resolve(id, User, Null)
  \/ \E t \in timers : TimerFire(t)

SpecAck == Init /\ [][NextAck]_vars

(***************************************************************************)
(* C36.  An alert with requiresAck = true is never resolved, that is moved *)
(* to the history, while its acknowledged flag is false.                   *)
(* Fails: resolve does not read requiresAck or acknowledged.               *)
(***************************************************************************)
C36_AckBeforeResolve ==
  /\ \A i \in DOMAIN history : history[i].requiresAck => history[i].acknowledged
  /\ (last.op = "resolve" /\ last.ret # <<>> /\ last.ret[1].requiresAck)
       => last.ret[1].acknowledged

(***************************************************************************)
(* C37.  The notes of every alert are append-only: no step removes or      *)
(* rewrites a note; acknowledge, resolve, escalate, addNote and assign     *)
(* each append at most one note, of their own type, to the alert they are  *)
(* called on and none to any other; and escalationLevel always equals the  *)
(* number of notes of type escalation.                                     *)
(***************************************************************************)
\* the type of the note each operation writes
OwnNote(op) ==
  CASE op = "acknowledge" -> "acknowledgment"
    [] op = "resolve"     -> "resolution"
    [] op = "escalate"    -> "escalation"
    [] op = "timer"       -> "escalation"
    [] op = "addNote"     -> "note"
    [] op = "assign"      -> "assignment"
    [] OTHER              -> ""

NotesOfType(a, type) == SelectSeq(a.notes, LAMBDA n : n.type = type)

C37_NotesAppendOnly ==
  [][\A id \in 1..uuidCount' :
       LET old == AlertOf(alerts, history, id)
           new == AlertOf(alerts', history', id)
       IN /\ new # <<>> => new[1].escalationLevel = Len(NotesOfType(new[1], "escalation"))
          /\ (old # <<>> /\ new # <<>>) =>
               LET before == old[1].notes
                   after == new[1].notes
               IN /\ Len(after) \in {Len(before), Len(before) + 1}
                  /\ SubSeq(after, 1, Len(before)) = before
                  /\ Len(after) = Len(before) + 1 =>
                       /\ last'.id = id
                       /\ after[Len(after)].type = OwnNote(last'.op)]_vars

\* a timer callback has just escalated an alert that carried a note: the escalation note
\* follows it
C37_Witness ==
  /\ last.op = "timer" /\ Escalated
  /\ Len(last.ret[1].notes) = 2
  /\ last.ret[1].notes[1].type = "note"
  /\ last.ret[1].notes[2].type = "escalation"
  /\ last.ret[1].escalationLevel = 1

(***************************************************************************)
(* C38.  register called with an id that is already registered fails only  *)
(* as a first registration with the same options would (on the type), and  *)
(* otherwise adds no second sensor: the record of that id is replaced, in  *)
(* its place, by a new one with status online, no lastData and counters at *)
(* 0; the buffer of the id is emptied; the other sensors and buffers stay  *)
(* as they were; and sensor:registered is emitted again, with the new      *)
(* record.                                                                 *)
(***************************************************************************)
C38_RegisterAgain ==
  [][(last'.op = "register" /\ MapPos(sensors, last'.arg.id) # 0) =>
       LET id == last'.arg.id
           i == MapPos(sensors, id)
       IN /\ last'.threw = ~HasSensorType(last'.arg.type)
          /\ IF last'.threw
             THEN /\ sensors' = sensors
                  /\ dataBuffer' = dataBuffer
                  /\ last'.emitted = <<>>
             ELSE /\ Len(sensors') = Len(sensors)
                  /\ \A k \in DOMAIN sensors : k # i => sensors'[k] = sensors[k]
                  /\ sensors'[i].id = id
                  /\ sensors'[i].type = last'.arg.type
                  /\ sensors'[i].status = "online"
                  /\ sensors'[i].lastData = <<>>
                  /\ sensors'[i].stats = [dataCount |-> 0, triggerCount |-> 0, errorCount |-> 0]
                  /\ sensors'[i].registeredAt = now
                  /\ last'.ret = <<sensors'[i]>>
                  /\ DOMAIN dataBuffer' = DOMAIN dataBuffer
                  /\ dataBuffer'[id] = <<>>
                  /\ \A other \in DOMAIN dataBuffer \ {id} : dataBuffer'[other] = dataBuffer[other]
                  /\ last'.emitted = <<[name |-> "sensor:registered", sensor |-> sensors'[i]]>>]_vars

\* the first of two sensors has just been registered again, after the second one was
\* registered and readings came in: it is still the first entry of the map, online, with
\* no reading and an empty buffer
C38_Witness ==
  /\ last.op = "register" /\ ~last.threw
  /\ last.arg.id = "s1"
  /\ Len(sensors) = 2
  /\ sensors[1].id = "s1"
  /\ sensors[1].registeredAt = 2
  /\ sensors[2].registeredAt = 0
  /\ sensors[1].stats.dataCount = 0
  /\ sensors[1].lastData = <<>>
  /\ dataBuffer["s1"] = <<>>

(***************************************************************************)
(* C39.  After any sequence of register, unregister, ingest and            *)
(* markOffline the ids that have a data buffer are exactly the ids of the  *)
(* registered sensors, and getBuffer called with an id that is not         *)
(* registered returns an empty list.                                       *)
(***************************************************************************)
RegisteredIds == {sensors[i].id : i \in DOMAIN sensors}

C39_BuffersOfRegistered ==
  /\ DOMAIN dataBuffer = RegisteredIds
  /\ (last.op = "getBuffer" /\ last.arg \notin RegisteredIds) => last.ret = <<>>
  /\ (last.op = "getBuffer" /\ last.arg \in RegisteredIds) =>
       last.ret = MostRecent(dataBuffer[last.arg], last.limit)

\* getBuffer has just been called with an id that was never registered, while one sensor
\* with two readings in its buffer is registered and another has been unregistered
C39_Witness ==
  /\ last.op = "getBuffer" /\ last.arg = "s9"
  /\ last.ret = <<>>
  /\ RegisteredIds = {"s1"}
  /\ Len(dataBuffer["s1"]) = 2
  /\ now = 3

(***************************************************************************)
(* C40.  Every trigger name that an ingest emits for a sensor belongs to   *)
(* the triggers declared for the sensor's type in sensorTypes, each        *)
(* trigger event names that sensor and its type, and a sensor of type      *)
(* generic emits no trigger, whatever the reading.                         *)
(***************************************************************************)
\* sensorTypes[type].triggers, empty for a type the table does not have
Vocabulary(type) == IF type \in DOMAIN sensorTypes THEN sensorTypes[type] ELSE {}

C40_TriggersInVocabulary ==
  (last.op = "ingest" /\ ~last.threw) =>
    LET sensor == sensors[MapPos(sensors, last.arg)]
        events == SensorTriggerEvents(last.emitted)
    IN /\ Fired(last.emitted) \subseteq Vocabulary(sensor.type)
       /\ \A k \in DOMAIN events :
            /\ events[k].sensorId = sensor.id
            /\ events[k].sensorType = sensor.type
       /\ sensor.type = "generic" => events = <<>>

\* a reading of a radio sensor fired the two triggers its rules know, of the three its
\* type declares
C40_Witness ==
  /\ last.op = "ingest" /\ ~last.threw
  /\ sensors[MapPos(sensors, last.arg)].type = "radio"
  /\ Fired(last.emitted) = {"unknown_frequency", "jamming_detected"}
  /\ Fired(last.emitted) # sensorTypes["radio"]
  /\ sensors[MapPos(sensors, last.arg)].stats.triggerCount = 2

====
